---- MODULE Spec2Model ----
(***************************************************************************)
(* Budget Pro: the local persistence and query layer (IndexedDB) and its   *)
(* callers.  The repository holds two builds of the application:           *)
(*   "bp" : src/bp/db.js (DB_VERSION 5, full scan + filter, resolves an    *)
(*          insert on tx.oncomplete)                                       *)
(*   "v1" : src/unnamed/part_001 (db.js, DB_VERSION 1, index lookups,      *)
(*          resolves an insert on req.onsuccess) used by src/app.js        *)
(* The variable impl says which build runs; every operation is modelled    *)
(* for both.                                                               *)
(*                                                                         *)
(* JavaScript numbers are held in thousandths (Scale), so that toFixed(2)  *)
(* rounds something; strings are sequences of one-character strings, so    *)
(* that trim, toLowerCase, unary plus and parseFloat are computed.         *)
(***************************************************************************)
EXTENDS Integers, Sequences, FiniteSets, TLC

VARIABLES
  impl,        \* "bp" | "v1": the build that runs
  version,     \* persisted schema version of BudgetProDB (0: no database yet)
  storeNames,  \* db.objectStoreNames
  store,       \* committed records: [users |-> set, expenses |-> set]
  keyGen,      \* key generator's current number, per object store
  _db,         \* the cached connection (0: null)
  opens,       \* indexedDB.open requests: sequence of [c, st, handle]
  txq,         \* live transactions, in creation order
  calls,       \* the asynchronous calls of the API: slot -> call record
  clock,       \* Date.now()
  now,         \* new Date(): [date, dow, skew]
  currentUser, \* the page's current user: null or {id, username}
  bp_user,     \* sessionStorage's item 'bp_user': null or the JSON of {id, username}
  page,        \* the application screen: filters, list, chart and its pending loads
  sw,          \* the service worker: its cache and the fetch events it is answering
  hist         \* history: keys returned by inserts, keys ever committed

vars ==
  <<impl, version, storeNames, store, keyGen, _db, opens, txq, calls, clock, now,
    currentUser, bp_user, page, sw, hist>>

\* The identity of the session, in memory and in sessionStorage
session == <<currentUser, bp_user>>

-----------------------------------------------------------------------------
(* Bounds of the model *)

MaxCalls == 3
MaxInFlight == 2

-----------------------------------------------------------------------------
(* JavaScript values *)

Scale == 1000

Num(n) == [t |-> "num", n |-> n, s |-> <<>>]
NaN == [t |-> "nan", n |-> 0, s |-> <<>>]
Str(s) == [t |-> "str", n |-> 0, s |-> s]
Undef == [t |-> "undef", n |-> 0, s |-> <<>>]
Null == [t |-> "null", n |-> 0, s |-> <<>>]

Digits == <<"0", "1", "2", "3", "4", "5", "6", "7", "8", "9">>
IsDigit(ch) == \E i \in 1..10 : Digits[i] = ch
DigitVal(ch) == (CHOOSE i \in 1..10 : Digits[i] = ch) - 1
IsSpace(ch) == ch = " "

Upper == <<"A", "B", "L", "O", "T">>
Lower == <<"a", "b", "l", "o", "t">>

\* String.prototype.toLowerCase, character by character
LowerChar(ch) ==
  IF \E i \in 1..Len(Upper) : Upper[i] = ch
    THEN Lower[CHOOSE i \in 1..Len(Upper) : Upper[i] = ch]
    ELSE ch
toLowerCase(s) == [i \in 1..Len(s) |-> LowerChar(s[i])]

\* String.prototype.trim
RECURSIVE trimStart(_)
trimStart(s) == IF s # <<>> /\ IsSpace(Head(s)) THEN trimStart(Tail(s)) ELSE s
RECURSIVE trimEnd(_)
trimEnd(s) ==
  IF s # <<>> /\ IsSpace(s[Len(s)]) THEN trimEnd(SubSeq(s, 1, Len(s) - 1)) ELSE s
trim(s) == trimEnd(trimStart(s))

\* The number of leading digits of s
RECURSIVE DigitRun(_)
DigitRun(s) == IF s # <<>> /\ IsDigit(Head(s)) THEN 1 + DigitRun(Tail(s)) ELSE 0

\* The value of a run of digits
RECURSIVE DigitsValue(_)
DigitsValue(s) ==
  IF s = <<>> THEN 0 ELSE 10 * DigitsValue(SubSeq(s, 1, Len(s) - 1)) + DigitVal(s[Len(s)])

\* A run of fraction digits, in thousandths (further digits are below the scale)
FracValue(s) ==
  LET d(i) == IF i <= Len(s) THEN DigitVal(s[i]) ELSE 0
  IN  100 * d(1) + 10 * d(2) + d(3)

\* The longest prefix of s that is a decimal literal [+-]digits[.digits]:
\* [ok, len, n] with n in thousandths
DecimalPrefix(s) ==
  LET sign == IF s # <<>> /\ Head(s) \in {"-", "+"} THEN 1 ELSE 0
      neg  == s # <<>> /\ Head(s) = "-"
      r1   == SubSeq(s, sign + 1, Len(s))
      ni   == DigitRun(r1)
      r2   == SubSeq(r1, ni + 1, Len(r1))
      dot  == r2 # <<>> /\ Head(r2) = "."
      nf   == IF dot THEN DigitRun(Tail(r2)) ELSE 0
      ok   == ni > 0 \/ (dot /\ nf > 0)
      mag  == Scale * DigitsValue(SubSeq(r1, 1, ni))
                + (IF dot THEN FracValue(SubSeq(Tail(r2), 1, nf)) ELSE 0)
  IN  [ok  |-> ok,
       len |-> IF ok THEN sign + ni + (IF dot THEN 1 + nf ELSE 0) ELSE 0,
       n   |-> IF neg THEN 0 - mag ELSE mag]

\* ToNumber (unary plus, Number(v), the operands of <= and >)
ToNumber(v) ==
  CASE v.t = "num" -> v
    [] v.t = "nan" -> NaN
    [] v.t = "undef" -> NaN
    [] v.t = "str" ->
         LET s == trim(v.s)
             p == DecimalPrefix(s)
         IN  IF s = <<>> THEN Num(0)
             ELSE IF p.ok /\ p.len = Len(s) THEN Num(p.n) ELSE NaN

\* parseFloat(v): the longest numeric prefix of String(v)
parseFloat(v) ==
  CASE v.t = "num" -> v
    [] v.t = "nan" -> NaN
    [] v.t = "undef" -> NaN
    [] v.t = "str" ->
         LET p == DecimalPrefix(trimStart(v.s))
         IN  IF p.ok THEN Num(p.n) ELSE NaN

\* parseInt(v): the integer part of the numeric prefix
parseInt(v) ==
  LET p == parseFloat(v)
  IN  IF p.t = "num"
        THEN Num(IF p.n >= 0 THEN (p.n \div Scale) * Scale
                 ELSE 0 - (((0 - p.n) \div Scale) * Scale))
        ELSE NaN

\* ToBoolean
Truthy(v) ==
  CASE v.t = "num" -> v.n # 0
    [] v.t = "nan" -> FALSE
    [] v.t = "undef" -> FALSE
    [] v.t = "str" -> v.s # <<>>

\* a > 0 and a <= 0 (false when ToNumber(a) is NaN)
GreaterThanZero(v) == LET x == ToNumber(v) IN x.t = "num" /\ x.n > 0
AtMostZero(v) == LET x == ToNumber(v) IN x.t = "num" /\ x.n <= 0

\* parseFloat(x.toFixed(2)): x rounded to hundredths
toFixed2(x) ==
  IF x.t # "num" THEN NaN
  ELSE LET a == IF x.n >= 0 THEN x.n ELSE 0 - x.n
           r == ((a + 5) \div 10) * 10
       IN  Num(IF x.n >= 0 THEN r ELSE 0 - r)

\* v || 0
OrZero(v) == IF Truthy(v) THEN v.n ELSE 0

-----------------------------------------------------------------------------
(* Dates.  A 'YYYY-MM-DD' string is the tuple <<y, m, d>>: the strings are    *)
(* zero-padded, so comparing them as strings is comparing the tuples          *)
(* lexicographically.  <<>> is the empty string.                              *)

IsLeap(y) == (y % 4 = 0 /\ y % 100 # 0) \/ y % 400 = 0
DaysInMonth(y, m) ==
  IF m = 2 THEN (IF IsLeap(y) THEN 29 ELSE 28)
  ELSE IF m \in {4, 6, 9, 11} THEN 30 ELSE 31

PrevDay(d) ==
  IF d[3] > 1 THEN <<d[1], d[2], d[3] - 1>>
  ELSE IF d[2] > 1 THEN <<d[1], d[2] - 1, DaysInMonth(d[1], d[2] - 1)>>
  ELSE <<d[1] - 1, 12, 31>>
NextDay(d) ==
  IF d[3] < DaysInMonth(d[1], d[2]) THEN <<d[1], d[2], d[3] + 1>>
  ELSE IF d[2] < 12 THEN <<d[1], d[2] + 1, 1>>
  ELSE <<d[1] + 1, 1, 1>>

\* The date k days from d (k may be negative)
RECURSIVE AddDays(_, _)
AddDays(d, k) ==
  IF k = 0 THEN d
  ELSE IF k > 0 THEN AddDays(NextDay(d), k - 1)
  ELSE AddDays(PrevDay(d), k + 1)

\* a < b, a <= b on 'YYYY-MM-DD' strings
DateLess(a, b) ==
  \/ a[1] < b[1]
  \/ a[1] = b[1] /\ a[2] < b[2]
  \/ a[1] = b[1] /\ a[2] = b[2] /\ a[3] < b[3]
DateGeq(a, b) == ~DateLess(a, b)

\* Date.prototype.getDay of the date d (0 is Sunday); 2024-01-01 was a Monday
RECURSIVE DaysBeforeMonth(_, _)
DaysBeforeMonth(y, m) ==
  IF m = 1 THEN 0 ELSE DaysBeforeMonth(y, m - 1) + DaysInMonth(y, m - 1)
RECURSIVE DaysBeforeYear(_)
DaysBeforeYear(y) ==
  IF y = 2024 THEN 0
  ELSE IF y > 2024 THEN DaysBeforeYear(y - 1) + (IF IsLeap(y - 1) THEN 366 ELSE 365)
  ELSE DaysBeforeYear(y + 1) - (IF IsLeap(y) THEN 366 ELSE 365)
DaysSince2024(d) == DaysBeforeYear(d[1]) + DaysBeforeMonth(d[1], d[2]) + d[3] - 1
getDay(d) == (DaysSince2024(d) + 1) % 7

\* _ds / toDateStr of new Date(+now - k * 864e5): k real days of 24 hours back
\* from now.  When a daylight-saving change lies in between, the wall clock
\* is an hour off and, near midnight, the date is a day off: now.skew.
DateMsBack(n, k) == IF k = 0 THEN n.date ELSE AddDays(n.date, n.skew - k)

\* mon.setDate(now.getDate() - day + 1): calendar arithmetic
DateSetBack(n, k) == AddDays(n.date, 0 - k)

-----------------------------------------------------------------------------
(* The schema *)

DB_VERSION(i) == IF i = "bp" THEN 5 ELSE 1

StoreNames == {"users", "expenses"}

\* An index that is not unique
UniqueUsername_Mutant == FALSE

\* users.createIndex(<name>, 'username', { unique: true })
UniqueUsername == TRUE

\* The salt of the PIN hash
Salt(i) == IF i = "bp" THEN "bp_v5_salt_" ELSE "budgetpro_salt_"

\* SHA-256 of salt + String(pin), as hexadecimal: a function of its input,
\* taken to be free of collisions
_hash(i, pin) == <<Salt(i)>> \o pin

-----------------------------------------------------------------------------
(* Users: DB.createUser, DB.verifyUser *)

\* const u = username.trim().toLowerCase()   (v1: username.toLowerCase())
NormalizeUsername(i, username) ==
  IF i = "bp" THEN toLowerCase(trim(username)) ELSE toLowerCase(username)

\* if (u.length < 2) throw   (v1: no check in createUser)
UsernameError(i, u) ==
  IF i = "bp" /\ Len(u) < 2 THEN "Nom trop court (2 caracteres min)." ELSE ""

\* The record createUser hands to the store
UserRecord(i, u, pin, t) == [username |-> u, pinHash |-> _hash(i, pin), createdAt |-> t]

\* return { id, username: u }   (v1: return { id, username })
UserView(i, id, u, username) ==
  [id |-> id, username |-> IF i = "bp" THEN u ELSE username]

-----------------------------------------------------------------------------
(* Expenses: DB.addExpense *)

\* The checks that open addExpense: the message thrown, "" when none is
AddExpenseError(i, f) ==
  IF i = "bp" THEN
    IF f.name.t # "str" \/ trim(f.name.s) = <<>> THEN "Le nom est requis."
    ELSE IF ~GreaterThanZero(f.amount) THEN "Montant invalide (doit etre > 0)."
    ELSE IF f.date = <<>> THEN "La date est requise."
    ELSE ""
  ELSE
    IF ~Truthy(f.name) \/ trim(f.name.s) = <<>> THEN "Le nom est requis."
    ELSE IF ~Truthy(f.amount) \/ AtMostZero(f.amount) THEN "Le montant doit etre positif."
    ELSE IF f.category = "" THEN "La categorie est requise."
    ELSE IF f.date = <<>> THEN "La date est requise."
    ELSE ""

\* The record addExpense hands to the store (no id: the store assigns it)
ExpenseRecord(i, userId, f, t) ==
  IF i = "bp" THEN
    [user_id  |-> userId,
     name     |-> trim(f.name.s),
     amount   |-> toFixed2(ToNumber(f.amount)),
     category |-> IF f.category # "" THEN f.category ELSE "Alimentation",
     date     |-> f.date,
     hour     |-> OrZero(ToNumber(f.hour)),
     minute   |-> OrZero(ToNumber(f.minute)),
     ts       |-> t]
  ELSE
    [user_id  |-> userId,
     name     |-> trim(f.name.s),
     amount   |-> parseFloat(f.amount),
     category |-> f.category,
     date     |-> f.date,
     hour     |-> OrZero(parseInt(f.hour)),
     minute   |-> OrZero(parseInt(f.minute)),
     ts       |-> t]

-----------------------------------------------------------------------------
(* Expenses: DB.getExpenses *)

\* The records of a store in key order, as getAll() returns them
RECURSIVE InKeyOrder(_)
InKeyOrder(S) ==
  IF S = {} THEN <<>>
  ELSE LET r == CHOOSE x \in S : \A y \in S : x.id <= y.id
       IN  <<r>> \o InKeyOrder(S \ {r})

\* A filter that keeps the records of every user
OwnedBy_Mutant(e, userId) == TRUE

\* all.filter(e => Number(e.user_id) === uid)
\* (v1: the records of the index user_id in IDBKeyRange.only(userId))
OwnedBy(e, userId) == e.user_id = userId

\* A period filter that keeps every date
PeriodKeeps_Mutant(e, i, period, n) == TRUE

\* The period filter, with today's date as the reference
PeriodKeeps(e, i, period, n) ==
  LET dow == IF n.dow = 0 THEN 7 ELSE n.dow
  IN  CASE period = "today" -> e.date = n.date
        [] period = "3days" -> DateGeq(e.date, DateMsBack(n, 2))
        [] period = "week"  ->
             IF i = "bp" THEN DateGeq(e.date, DateMsBack(n, dow - 1))
             ELSE DateGeq(e.date, DateSetBack(n, dow - 1))
        [] period = "month" -> e.date[1] = n.date[1] /\ e.date[2] = n.date[2]
        [] period = "year"  -> e.date[1] = n.date[1]
        [] OTHER -> TRUE

\* if (category && category !== 'Toutes')   (v1: if (category !== 'Toutes'))
CategoryKeeps(e, i, category) ==
  IF (i = "bp" /\ category = "") \/ category = "Toutes" THEN TRUE
  ELSE e.category = category

Sign(n) == IF n < 0 THEN 0 - 1 ELSE IF n > 0 THEN 1 ELSE 0

\* The comparator of list.sort: negative when a goes before b
Compare(i, a, b) ==
  LET byDate == IF DateLess(a.date, b.date) THEN 1
                ELSE IF DateLess(b.date, a.date) THEN 0 - 1 ELSE 0
      byHour == Sign(b.hour - a.hour)
      byMin  == Sign(b.minute - a.minute)
      byTs   == IF i = "bp" THEN Sign(b.ts - a.ts) ELSE 0
  IN  IF byDate # 0 THEN byDate
      ELSE IF byHour # 0 THEN byHour
      ELSE IF byMin # 0 THEN byMin
      ELSE byTs

\* Array.prototype.sort is stable: x, which came after every element of the
\* sorted s, goes before the first element it is strictly before
RECURSIVE InsertSorted(_, _, _)
InsertSorted(i, s, x) ==
  IF s = <<>> THEN <<x>>
  ELSE IF Compare(i, x, Head(s)) < 0 THEN <<x>> \o s
  ELSE <<Head(s)>> \o InsertSorted(i, Tail(s), x)
RECURSIVE SortList(_, _)
SortList(i, s) ==
  IF s = <<>> THEN <<>>
  ELSE InsertSorted(i, SortList(i, SubSeq(s, 1, Len(s) - 1)), s[Len(s)])

\* DB.getExpenses(userId, period, category) on the records read
getExpenses(i, all, userId, period, category, n) ==
  LET mine   == SelectSeq(InKeyOrder(all), LAMBDA e : OwnedBy(e, userId))
      inTime == SelectSeq(mine, LAMBDA e : PeriodKeeps(e, i, period, n))
      inCat  == SelectSeq(inTime, LAMBDA e : CategoryKeeps(e, i, category))
  IN  SortList(i, inCat)

\* A check of existence alone
MayDelete_Mutant(found, userId) == found # {}

\* if (!e || Number(e.user_id) !== Number(userId)) throw
\* (v1: if (!expense || expense.user_id !== userId) throw)
MayDelete(found, userId) == found # {} /\ \A e \in found : e.user_id = userId

-----------------------------------------------------------------------------
(* Statistics: DB.statsByCategory, statsByDay, statsByMonth *)

\* a + b on numbers
Plus(a, b) == IF a.t = "num" /\ b.t = "num" THEN Num(a.n + b.n) ELSE NaN

\* v || 0
OrZeroValue(v) == IF Truthy(v) THEN v ELSE Num(0)

\* list.reduce((acc, e) => { acc[e.category] = (acc[e.category] || 0) + e.amount; ... }, acc)
RECURSIVE FoldCategory(_, _)
FoldCategory(list, acc) ==
  IF list = <<>> THEN acc
  ELSE LET e   == Head(list)
           old == IF e.category \in DOMAIN acc THEN acc[e.category] ELSE Undef
           new == Plus(OrZeroValue(old), e.amount)
       IN  FoldCategory(Tail(list),
             [k \in DOMAIN acc \cup {e.category} |-> IF k = e.category THEN new ELSE acc[k]])

\* A fold that starts with a category at 0
statsByCategory_Mutant(list) == FoldCategory(list, [k \in {"Sante"} |-> Num(0)])

\* DB.statsByCategory on the list of getExpenses(userId, period, 'Toutes')
statsByCategory(list) == FoldCategory(list, <<>>)

\* list.forEach(e => { map[e.date] = (map[e.date] || 0) + e.amount; })
RECURSIVE FoldDay(_, _)
FoldDay(list, acc) ==
  IF list = <<>> THEN acc
  ELSE LET e   == Head(list)
           old == IF e.date \in DOMAIN acc THEN acc[e.date] ELSE Undef
           new == Plus(OrZeroValue(old), e.amount)
       IN  FoldDay(Tail(list),
             [k \in DOMAIN acc \cup {e.date} |-> IF k = e.date THEN new ELSE acc[k]])

\* Object.keys(map).sort(): the dates in ascending order
RECURSIVE SortDates(_)
SortDates(S) ==
  IF S = {} THEN <<>>
  ELSE LET d == CHOOSE x \in S : \A y \in S : ~DateLess(y, x)
       IN  <<d>> \o SortDates(S \ {d})

\* The label as MM/DD
DayLabel_Mutant(d) == <<d[2], d[3]>>

\* d => { const [, m, j] = d.split('-'); return `${j}/${m}`; }
DayLabel(d) == <<d[3], d[2]>>

\* DB.statsByDay on the list of getExpenses(userId, period, 'Toutes')
statsByDay(list) ==
  LET map   == FoldDay(list, <<>>)
      dates == SortDates(DOMAIN map)
  IN  [labels |-> [j \in 1..Len(dates) |-> DayLabel(dates[j])],
       data   |-> [j \in 1..Len(dates) |-> map[dates[j]]]]

MN == <<"Jan", "Fev", "Mar", "Avr", "Mai", "Jun", "Jul", "Aou", "Sep", "Oct", "Nov", "Dec">>

\* Array.from({ length: 12 }, ...)   (v1: for (let i = 11; i >= 0; i--))
MonthCount == 12

\* The months of the current calendar year
MonthKey_Mutant(n, j) == <<n.date[1], j>>

\* new Date(now.getFullYear(), now.getMonth() - 11 + i, 1) as 'YYYY-MM': the
\* month index is carried into the year
MonthKey(n, j) ==
  LET m0 == (n.date[2] - 1) - (MonthCount - 1) + (j - 1)
  IN  <<n.date[1] + (m0 \div 12), (m0 % 12) + 1>>

\* mine.forEach(e => { const k = String(e.date).slice(0, 7); if (k in map) map[k] += e.amount; })
RECURSIVE FoldMonth(_, _)
FoldMonth(list, acc) ==
  IF list = <<>> THEN acc
  ELSE LET e == Head(list)
           k == <<e.date[1], e.date[2]>>
       IN  FoldMonth(Tail(list),
             IF k \in DOMAIN acc THEN [acc EXCEPT ![k] = Plus(@, e.amount)] ELSE acc)

\* k => { const [y, m] = k.split('-'); return `${MN[+m - 1]} ${y}`; }
MonthLabel(k) == <<MN[k[2]], k[1]>>

\* Statistics by month over the expenses of every user
statsByMonth_Mutant(all, userId, n) ==
  LET keys == [j \in 1..MonthCount |-> MonthKey(n, j)]
      map  == FoldMonth(InKeyOrder(all), [k \in {keys[j] : j \in 1..MonthCount} |-> Num(0)])
  IN  [labels |-> [j \in 1..MonthCount |-> MonthLabel(keys[j])],
       data   |-> [j \in 1..MonthCount |-> map[keys[j]]]]

\* DB.statsByMonth(userId) on the records read
statsByMonth(all, userId, n) ==
  LET mine == SelectSeq(InKeyOrder(all), LAMBDA e : OwnedBy(e, userId))
      keys == [j \in 1..MonthCount |-> MonthKey(n, j)]
      map  == FoldMonth(mine, [k \in {keys[j] : j \in 1..MonthCount} |-> Num(0)])
  IN  [labels |-> [j \in 1..MonthCount |-> MonthLabel(keys[j])],
       data   |-> [j \in 1..MonthCount |-> map[keys[j]]]]

-----------------------------------------------------------------------------
(* The asynchronous calls and the transactions of IndexedDB *)

Slots == 1..MaxCalls

Pending == [st |-> "pending", err |-> "", val |-> <<>>]
Ok(v) == [st |-> "ok", err |-> "", val |-> v]
Err(m) == [st |-> "err", err |-> m, val |-> <<>>]

\* A call: op with its arguments arg, what it awaits (pc), the connection db
\* that openDB() gave it, the state of its write transaction (txst) and the
\* settlement of its promise (out).  tmp is what its read found, seen the
\* records of the store its index lookup read, pre is the store when it was
\* called, alone whether every earlier call had settled by then, via whether
\* the API was called directly ("api") or by a handler of the page ("form").
IdleCall ==
  [op |-> "none", pc |-> "idle", arg |-> <<>>, tmp |-> <<>>, db |-> 0,
   txst |-> "none", out |-> Pending, pre |-> <<>>, alone |-> FALSE, seen |-> {},
   via |-> "api"]

InFlight == {c \in Slots : calls[c].pc \in {"wait", "hash", "open"}}

NewCall(op, arg) ==
  [op |-> op, pc |-> "wait", arg |-> arg, tmp |-> <<>>, db |-> _db,
   txst |-> "none", out |-> Pending, pre |-> store, alone |-> InFlight = {},
   seen |-> {}, via |-> "api"]

\* The slot a new call takes: the first idle one, while fewer than
\* MaxInFlight calls are unsettled
FreeSlot(c) ==
  /\ calls[c].pc = "idle"
  /\ \A d \in Slots : d < c => calls[d].pc # "idle"
  /\ Cardinality(InFlight) < MaxInFlight

\* A delete that goes to the users store
Tx_Mutant(c, storeName, kind, arg) ==
  [c |-> c, store |-> IF kind = "delete" THEN "users" ELSE storeName,
   kind |-> kind, arg |-> arg, st |-> "queued", key |-> 0]

\* A full scan that also deletes the record of key 1
Tx_Persist(c, storeName, kind, arg) ==
  [c |-> c, store |-> storeName,
   kind |-> IF kind = "getAll" THEN "delete" ELSE kind,
   arg |-> IF kind = "getAll" THEN 1 ELSE arg, st |-> "queued", key |-> 0]

\* db.transaction(storeName, mode) with its one request
Tx(c, storeName, kind, arg) ==
  [c |-> c, store |-> storeName, kind |-> kind, arg |-> arg, st |-> "queued", key |-> 0]

RemoveAt(s, k) == SubSeq(s, 1, k - 1) \o SubSeq(s, k + 1, Len(s))

-----------------------------------------------------------------------------
(* The application screen: loadData, renderList, renderChart                  *)
(* (src/bp/db.js from line 300 on, src/app.js)                                 *)

\* The screen before it is shown: let chart = null (v1: activeChart),
\* let chartType = 'bar_h', the filters as the page has them, nothing pending
\*   chart, live: the Chart the variable refers to (0: null) and the Charts
\*                that were constructed and not destroyed
\*   empty:       the element that says the chart has no data is shown
\*   list:        what renderList showed last, and for which loadData
\*   reads:       the reads of the expenses store that are awaited, oldest first
\*   got:         bp: the lists that Promise.all holds until the chart is drawn
\*   thrown:      the renderChart invocations that ended in an exception
NoPage ==
  [period |-> "month", category |-> "Toutes", chartType |-> "bar_h",
   chart |-> 0, live |-> {}, made |-> 0, empty |-> FALSE,
   list |-> [load |-> 0, items |-> <<>>],
   loads |-> 0, renders |-> 0, reads |-> <<>>, got |-> {}, thrown |-> {}]

\* if (chart) { chart.destroy(); chart = null; }
Destroyed(p) == [p EXCEPT !.chart = 0, !.live = {ch \in @ : ch.id # p.chart}]

\* renderChart(period) up to its await: the chart the variable refers to is
\* destroyed, then the statistics of chartType are asked for; currentUser.id
\* throws when nobody is logged in
renderChart(i, p, user, period, load) ==
  LET r == p.renders + 1
      q == [Destroyed(p) EXCEPT !.renders = r,
                                !.empty = IF i = "bp" THEN FALSE ELSE @]
  IN  IF user = Null
        THEN [q EXCEPT !.thrown = @ \cup {r}]
        ELSE [q EXCEPT !.reads = Append(@,
                [what |-> "chart", load |-> load, render |-> r, user |-> user.id,
                 period |-> period, category |-> "Toutes", type |-> q.chartType])]

\* loadData() up to its await: the filters are read and the list is asked for
\* bp: Promise.all([DB.getExpenses(...), renderChart(period)])
\* v1: await DB.getExpenses(...), renderChart comes after it
loadData(i, p, user) ==
  LET l == p.loads + 1
      q == [p EXCEPT !.loads = l]
      listed == [q EXCEPT !.reads = Append(@,
                   [what |-> "list", load |-> l, render |-> 0, user |-> user.id,
                    period |-> p.period, category |-> p.category, type |-> ""])]
  IN  IF user = Null THEN q
      ELSE IF i = "bp" THEN renderChart(i, listed, user, p.period, l)
      ELSE listed

\* A constructor that takes a canvas whatever is drawn on it
CanvasInUse_Mutant(p) == FALSE

\* new Chart(ctx, cfg) of Chart.js 4.4.0 throws 'Canvas is already in use'
\* when a Chart of this canvas has not been destroyed
CanvasInUse(p) == p.live # {}

\* The statistics have no data: !Object.keys(stats).length, or
\* !stats.data.some(v => v > 0) for the months
NoData(type, stats) ==
  IF type = "bar_month" THEN \A j \in 1..MonthCount : ~GreaterThanZero(stats.data[j])
  ELSE DOMAIN stats = {}

\* renderList(expenses) for the loadData l
renderList(p, l, items) == [p EXCEPT !.list = [load |-> l, items |-> items]]

\* renderChart after its await, for the read r of the statistics: without
\* data the message is shown and no chart is made; otherwise new Chart(...)
ChartDrawn(i, p, r, all, n) ==
  LET stats == IF r.type = "bar_month" THEN statsByMonth(all, r.user, n)
               ELSE statsByCategory(getExpenses(i, all, r.user, r.period, "Toutes", n))
      bars  == IF r.type = "bar_month" THEN MonthCount ELSE Cardinality(DOMAIN stats)
      id    == p.made + 1
      clear == [p EXCEPT !.empty = IF i = "v1" THEN FALSE ELSE @]
  IN  IF NoData(r.type, stats) THEN [p EXCEPT !.empty = TRUE]
      ELSE IF CanvasInUse(p) THEN [clear EXCEPT !.thrown = @ \cup {r.render}]
      ELSE [clear EXCEPT !.chart = id, !.made = id,
                         !.live = @ \cup {[id |-> id, render |-> r.render, load |-> r.load,
                                           type |-> r.type, period |-> r.period,
                                           bars |-> bars]}]

\* The oldest read settles and the function that awaits it goes on
\* v1 loadData: renderList(expenses); await renderChart(period)
\* bp loadData: renderList(expenses) once the list and the chart are there,
\*              never when renderChart has thrown
ReadSettled(i, p, user, all, n) ==
  LET r    == Head(p.reads)
      rest == [p EXCEPT !.reads = Tail(@)]
  IN  IF r.what = "list"
        THEN LET items == getExpenses(i, all, r.user, r.period, r.category, n)
             IN  IF i = "bp"
                   THEN [rest EXCEPT !.got = @ \cup {[load |-> r.load, items |-> items]}]
                   ELSE renderChart(i, renderList(rest, r.load, items), user, r.period, r.load)
        ELSE LET q    == ChartDrawn(i, rest, r, all, n)
                 mine == {g \in q.got : g.load = r.load}
                 kept == [q EXCEPT !.got = @ \ mine]
             IN  IF i = "bp" /\ mine # {} /\ r.render \notin q.thrown
                   THEN renderList(kept, r.load, (CHOOSE g \in mine : TRUE).items)
                   ELSE kept

-----------------------------------------------------------------------------
(* The service worker (src/sw.js, src/bp/sw.js) *)

\* const ASSETS = [...]: the application shell, here two of its files
Assets == {"./index.html", "./app.js"}

\* The service worker once it is active, before any fetch event: install has
\* put every asset in the cache (cache.addAll(ASSETS)), nothing was sent to the
\* network by the fetch listener
NoWorker == [cache |-> Assets, events |-> <<>>, sent |-> 0]

\* A lookup that finds nothing
Matches_Mutant(cache, url) == FALSE

\* caches.match(e.request): the cache holds a response for the request
Matches(cache, url) == url \in cache

\* A handler that forgets the user when the call fails
SessionAfter_Mutant(cur, out) == IF out.st = "ok" THEN out.val ELSE Null

\* What the submit handlers of the forms leave in currentUser and in
\* sessionStorage when the promise of createUser / verifyUser has settled
\* try { currentUser = await DB...; sessionStorage.setItem('bp_user', ...) }
\* catch (err) { showMsg(...) }
SessionAfter(cur, out) == IF out.st = "ok" THEN out.val ELSE cur

\* The promise of the call c settles in this step: when a form awaits it, its
\* handler goes on at once
Continue(c) ==
  LET settles == /\ calls[c].via = "form"
                 /\ calls[c].pc # "done" /\ calls'[c].pc = "done"
  IN  IF settles /\ calls[c].op \in {"createUser", "verifyUser"}
        THEN /\ currentUser' = SessionAfter(currentUser, calls'[c].out)
             /\ bp_user' = SessionAfter(bp_user, calls'[c].out)
             /\ page' = IF calls'[c].out.st = "ok"
                          THEN loadData(impl, page, calls'[c].out.val)
                          ELSE page
      ELSE IF settles /\ calls[c].op = "addExpense"
        THEN /\ page' = IF calls'[c].out.st = "ok"
                          THEN loadData(impl, page, currentUser)
                          ELSE page
             /\ UNCHANGED session
      ELSE UNCHANGED <<session, page>>

\* openDB(): if (_db) return Promise.resolve(_db)
Cached == _db # 0

\* openDB().then(db => ... db.transaction(...)): with the cached connection the
\* transaction is created at once; otherwise indexedDB.open is called and the
\* transaction is created when that request succeeds
StartOp(c, call, tx) ==
  IF Cached
    THEN /\ calls' = [calls EXCEPT ![c] = call]
         /\ txq' = Append(txq, tx)
         /\ opens' = opens
         /\ hist' = hist
    ELSE /\ calls' = [calls EXCEPT ![c] = [call EXCEPT !.pc = "open"]]
         /\ opens' = Append(opens, tx)
         /\ txq' = txq
         /\ hist' = [hist EXCEPT !.nOpen = @ + 1]

\* A call that throws before it reaches the store
Throw(c, call, msg) ==
  /\ calls' = [calls EXCEPT ![c] = [call EXCEPT !.pc = "done", !.out = Err(msg)]]
  /\ UNCHANGED <<txq, opens, hist>>

\* req.onupgradeneeded: the object stores after the upgrade
\* bp: every old store is deleted, users and expenses are created
\* v1: users and expenses are created unless they exist
UpgradedNames == IF impl = "bp" THEN StoreNames ELSE storeNames \cup StoreNames
UpgradedStore ==
  [n \in StoreNames |-> IF impl = "bp" \/ n \notin storeNames THEN {} ELSE store[n]]
UpgradedKeyGen ==
  [n \in StoreNames |-> IF impl = "bp" \/ n \notin storeNames THEN 0 ELSE keyGen[n]]

\* indexedDB.open(DB_NAME, DB_VERSION) succeeds, after the upgrade when the
\* persisted version is older: req.onsuccess sets _db and resolves the caller,
\* whose transaction is created on the new connection
OpenSuccess ==
  /\ opens # <<>>
  /\ version <= DB_VERSION(impl)
  /\ LET tx == Head(opens)
         h  == hist.nConn + 1
     IN  /\ _db' = h
         /\ hist' = [hist EXCEPT !.nConn = h]
         /\ opens' = Tail(opens)
         /\ calls' = [calls EXCEPT ![tx.c].pc = "wait", ![tx.c].db = h]
         /\ txq' = Append(txq, tx)
  /\ IF version < DB_VERSION(impl)
       THEN /\ version' = DB_VERSION(impl)
            /\ storeNames' = UpgradedNames
            /\ store' = UpgradedStore
            /\ keyGen' = UpgradedKeyGen
       ELSE UNCHANGED <<version, storeNames, store, keyGen>>
  /\ UNCHANGED <<impl, session, page, sw, clock, now>>

\* req.onerror = e => reject(new Error('Erreur ouverture DB: ' + e.target.error))
\* (v1: reject(e.target.error))
OpenErrorMsg(i) == IF i = "bp" THEN "Erreur ouverture DB: VersionError" ELSE "VersionError"

\* The persisted version is newer than DB_VERSION: VersionError, req.onerror
OpenError ==
  /\ opens # <<>>
  /\ version > DB_VERSION(impl)
  /\ LET tx == Head(opens)
     IN  /\ calls' = [calls EXCEPT ![tx.c].pc = "done",
                                   ![tx.c].out = Err(OpenErrorMsg(impl))]
         /\ opens' = Tail(opens)
  /\ UNCHANGED <<impl, session, page, sw, version, storeNames, store, keyGen, _db, txq, clock, now, hist>>

-----------------------------------------------------------------------------
(* The store layer: _add, _get, _findOne, _getAllFromStore, _delete, _count   *)
(* (v1: dbAdd, dbGet, dbGetByIndex, dbGetAll, dbGetAllByIndex, dbDelete)      *)

\* A transaction runs when no older live transaction has its object store in
\* scope
Runnable(k) ==
  /\ k \in 1..Len(txq)
  /\ txq[k].st = "queued"
  /\ \A j \in 1..(k - 1) : txq[j].store # txq[k].store

\* Which event settles the promise of a write
\* bp: tx.oncomplete = () => resolve(key)
\* v1: req.onsuccess = () => resolve(req.result)
ResolvesOnRequest(i, kind) == i = "v1"

\* bp _add: tx.onabort = () => reject(...); _delete, dbAdd and dbDelete have
\* no handler for the abort of their transaction
RejectsOnAbort(i, kind) == i = "bp" /\ kind = "add"

\* The message of a write that failed
WriteErrorMsg(i) == IF i = "bp" THEN "Ecriture echouee: ConstraintError" ELSE "ConstraintError"
AbortMsg == "Transaction annulee"
DuplicateMsg(i) ==
  IF i = "bp" THEN "Ce nom est deja utilise." ELSE "Ce nom d'utilisateur est deja pris."

\* The unique index on username refuses a second record with the same value
ConstraintError(t) ==
  /\ t.store = "users"
  /\ UniqueUsername
  /\ \E r \in store["users"] : r.username = t.arg.username

\* The record stored by add(obj): obj with the generated key at keyPath 'id'
Stored(t) == [f \in DOMAIN t.arg \cup {"id"} |-> IF f = "id" THEN t.key ELSE t.arg[f]]

\* What the caller of _add / dbAdd does with the key
InsertResolved(call, key) ==
  IF call.op = "createUser"
    THEN [call EXCEPT !.pc = "done",
                      !.out = Ok(UserView(impl, key, call.arg.u, call.arg.username))]
  ELSE IF impl = "bp" /\ key = 0
    THEN [call EXCEPT !.pc = "done", !.out = Err("Enregistrement echoue, reessayez.")]
  ELSE [call EXCEPT !.pc = "done", !.out = Ok(key)]

\* index.get(value) on the index of username: _findOne / dbGetByIndex
ExecIndex(k) ==
  /\ Runnable(k)
  /\ txq[k].kind = "index"
  /\ LET t     == txq[k]
         call  == calls[t.c]
         found == {r \in store[t.store] : r.username = t.arg}
         read  == [call EXCEPT !.seen = store[t.store]]
     IN  calls' = [calls EXCEPT ![t.c] =
           IF call.op = "createUser"
             THEN IF found # {}
                    THEN [read EXCEPT !.pc = "done", !.out = Err(DuplicateMsg(impl))]
                    ELSE [read EXCEPT !.pc = "hash"]
             ELSE IF found = {}
                    THEN [read EXCEPT !.pc = "done", !.out = Err("Utilisateur introuvable.")]
                    ELSE [read EXCEPT !.pc = "hash", !.tmp = CHOOSE r \in found : TRUE]]
  /\ txq' = RemoveAt(txq, k)
  /\ Continue(txq[k].c)
  /\ UNCHANGED <<impl, sw, version, storeNames, store, keyGen, _db, opens, clock, now, hist>>

\* A get that rejects when no record has the key
GetResult_Mutant(i, found) ==
  IF found # {} THEN Ok(CHOOSE r \in found : TRUE) ELSE Err("NotFoundError")

\* What _get / dbGet resolves with: the record, or for no record
\* bp: resolve(req.result ?? null)
\* v1: resolve(req.result), which is undefined
GetResult(i, found) ==
  IF found # {} THEN Ok(CHOOSE r \in found : TRUE)
  ELSE IF i = "bp" THEN Ok(Null) ELSE Ok(Undef)

\* objectStore.get(key): _get called on its own resolves; in deleteExpense the
\* ownership check follows and, when it passes, _delete / dbDelete
ExecGet(k) ==
  /\ Runnable(k)
  /\ txq[k].kind = "get"
  /\ LET t     == txq[k]
         call  == calls[t.c]
         found == {r \in store[t.store] : r.id = t.arg}
     IN  IF call.op = "_get"
           THEN /\ txq' = RemoveAt(txq, k)
                /\ calls' = [calls EXCEPT ![t.c].pc = "done", ![t.c].tmp = found,
                                          ![t.c].seen = store[t.store],
                                          ![t.c].out = GetResult(impl, found)]
         ELSE IF MayDelete(found, call.arg.userId)
           THEN /\ txq' = Append(RemoveAt(txq, k), Tx(t.c, t.store, "delete", t.arg))
                /\ calls' = [calls EXCEPT ![t.c].txst = "live", ![t.c].tmp = found]
           ELSE /\ txq' = RemoveAt(txq, k)
                /\ calls' = [calls EXCEPT ![t.c].pc = "done", ![t.c].tmp = found,
                                          ![t.c].out = Err("Depense introuvable.")]
  /\ UNCHANGED <<impl, session, page, sw, version, storeNames, store, keyGen, _db, opens, clock, now, hist>>

\* objectStore.getAll() (v1 getExpenses: index('user_id').getAll(only(userId))),
\* then the rest of the caller
ExecGetAll(k) ==
  /\ Runnable(k)
  /\ txq[k].kind = "getAll"
  /\ LET t    == txq[k]
         call == calls[t.c]
         all  == store[t.store]
         list(category) == getExpenses(impl, all, call.arg.userId, call.arg.period,
                                       category, now)
     IN  calls' = [calls EXCEPT ![t.c].pc = "done", ![t.c].tmp = all, ![t.c].out =
           CASE call.op = "getExpenses" -> Ok(list(call.arg.category))
             [] call.op = "statsByCategory" -> Ok(statsByCategory(list("Toutes")))
             [] call.op = "statsByDay" -> Ok(statsByDay(list("Toutes")))
             [] call.op = "statsByMonth" -> Ok(statsByMonth(all, call.arg.userId, now))
             [] OTHER -> Ok(all # {})]
  /\ txq' = RemoveAt(txq, k)
  /\ UNCHANGED <<impl, session, page, sw, version, storeNames, store, keyGen, _db, opens, clock, now, hist>>

\* objectStore.count(): bp hasUsers
ExecCount(k) ==
  /\ Runnable(k)
  /\ txq[k].kind = "count"
  /\ calls' = [calls EXCEPT ![txq[k].c].pc = "done",
                            ![txq[k].c].out = Ok(Cardinality(store[txq[k].store]) > 0)]
  /\ txq' = RemoveAt(txq, k)
  /\ UNCHANGED <<impl, session, page, sw, version, storeNames, store, keyGen, _db, opens, clock, now, hist>>

\* objectStore.add(obj): the key generator gives the next key, unless a unique
\* index refuses the record: then the request fails and the transaction aborts
ExecAdd(k) ==
  /\ Runnable(k)
  /\ txq[k].kind = "add"
  /\ LET t    == txq[k]
         call == calls[t.c]
         key  == keyGen[t.store] + 1
     IN  IF ConstraintError(t)
           THEN /\ txq' = RemoveAt(txq, k)
                /\ calls' = [calls EXCEPT ![t.c].pc = "done", ![t.c].txst = "aborted",
                                          ![t.c].out = Err(WriteErrorMsg(impl))]
                /\ hist' = hist
           ELSE /\ txq' = [txq EXCEPT ![k].st = "requested", ![k].key = key]
                /\ IF ResolvesOnRequest(impl, "add")
                     THEN /\ calls' = [calls EXCEPT ![t.c] = InsertResolved(call, key)]
                          /\ hist' = [hist EXCEPT !.returned[t.store] = Append(@, key)]
                     ELSE UNCHANGED <<calls, hist>>
  /\ Continue(txq[k].c)
  /\ UNCHANGED <<impl, sw, version, storeNames, store, keyGen, _db, opens, clock, now>>

\* A delete that empties the store when the key is not in it
Deleted_Mutant(S, key) ==
  IF \E r \in S : r.id = key THEN {r \in S : r.id # key} ELSE {}

\* The records of an object store after delete(key): the record with that key
\* is gone, the others stay
Deleted(S, key) == {r \in S : r.id # key}

\* objectStore.delete(key): the request succeeds whether or not the key exists
ExecDelete(k) ==
  /\ Runnable(k)
  /\ txq[k].kind = "delete"
  /\ txq' = [txq EXCEPT ![k].st = "requested", ![k].key = txq[k].arg]
  /\ IF ResolvesOnRequest(impl, "delete")
       THEN calls' = [calls EXCEPT ![txq[k].c].pc = "done", ![txq[k].c].out = Ok(TRUE)]
       ELSE UNCHANGED calls
  /\ UNCHANGED <<impl, session, page, sw, version, storeNames, store, keyGen, _db, opens, clock, now, hist>>

\* The transaction commits: its write is durable, tx.oncomplete fires
Commit(k) ==
  /\ k \in 1..Len(txq)
  /\ txq[k].st = "requested"
  /\ LET t    == txq[k]
         call == calls[t.c]
         isAdd == t.kind = "add"
         late == ~ResolvesOnRequest(impl, t.kind)
     IN  /\ store' = [store EXCEPT ![t.store] =
                        IF isAdd THEN @ \cup {Stored(t)} ELSE Deleted(@, t.key)]
         /\ keyGen' = [keyGen EXCEPT ![t.store] = IF isAdd THEN t.key ELSE @]
         /\ hist' = [hist EXCEPT
                       !.committed[t.store] = IF isAdd THEN @ \cup {t.key} ELSE @,
                       !.returned[t.store] = IF isAdd /\ late THEN Append(@, t.key) ELSE @]
         /\ calls' = [calls EXCEPT ![t.c] =
                        IF ~late THEN [call EXCEPT !.txst = "complete"]
                        ELSE IF isAdd THEN [InsertResolved(call, t.key) EXCEPT !.txst = "complete"]
                        ELSE [call EXCEPT !.pc = "done", !.txst = "complete", !.out = Ok(TRUE)]]
  /\ txq' = RemoveAt(txq, k)
  /\ Continue(txq[k].c)
  /\ UNCHANGED <<impl, sw, version, storeNames, _db, opens, clock, now>>

\* The commit fails (quota, disk): the transaction aborts, nothing of it is
\* kept, the key generator included; tx.onabort fires, tx.onerror does not
Abort(k) ==
  /\ k \in 1..Len(txq)
  /\ txq[k].st = "requested"
  /\ LET t    == txq[k]
         call == calls[t.c]
     IN  calls' = [calls EXCEPT ![t.c] =
           IF RejectsOnAbort(impl, t.kind)
             THEN [call EXCEPT !.pc = "done", !.txst = "aborted", !.out = Err(AbortMsg)]
             ELSE [call EXCEPT !.txst = "aborted"]]
  /\ txq' = RemoveAt(txq, k)
  /\ Continue(txq[k].c)
  /\ UNCHANGED <<impl, sw, version, storeNames, store, keyGen, _db, opens, clock, now, hist>>

-----------------------------------------------------------------------------
(* The API: DB.createUser, verifyUser, hasUsers, addExpense, getExpenses,     *)
(* deleteExpense                                                              *)

Frame == UNCHANGED <<impl, session, page, sw, version, storeNames, store, keyGen, _db, clock, now>>

\* DB.createUser(username, pin), called directly or by the handler of a form
CreateUser(c, username, pin, via) ==
  /\ FreeSlot(c)
  /\ LET u    == NormalizeUsername(impl, username)
         call == [NewCall("createUser", [username |-> username, pin |-> pin, u |-> u])
                    EXCEPT !.via = via]
     IN  IF UsernameError(impl, u) # ""
           THEN Throw(c, call, UsernameError(impl, u))
           ELSE StartOp(c, call, Tx(c, "users", "index", u))
  /\ Frame

CreateUserCall(c, username, pin) == CreateUser(c, username, pin, "api")

\* DB.verifyUser(username, pin), called directly or by the handler of a form
VerifyUser(c, username, pin, via) ==
  /\ FreeSlot(c)
  /\ LET u    == NormalizeUsername(impl, username)
         call == [NewCall("verifyUser", [username |-> username, pin |-> pin, u |-> u])
                    EXCEPT !.via = via]
     IN  StartOp(c, call, Tx(c, "users", "index", u))
  /\ Frame

VerifyUserCall(c, username, pin) == VerifyUser(c, username, pin, "api")

\* await _hash(pin) has its digest: createUser goes on to _add, verifyUser
\* compares the digest with the stored one
HashDone(c) ==
  /\ calls[c].pc = "hash"
  /\ LET call == calls[c]
     IN  IF call.op = "createUser"
           THEN /\ calls' = [calls EXCEPT ![c].pc = "wait", ![c].txst = "live"]
                /\ txq' = Append(txq, Tx(c, "users", "add",
                                         UserRecord(impl, call.arg.u, call.arg.pin, clock)))
           ELSE /\ calls' = [calls EXCEPT ![c].pc = "done", ![c].out =
                      IF _hash(impl, call.arg.pin) # call.tmp.pinHash
                        THEN Err("Code PIN incorrect.")
                        ELSE Ok([id |-> call.tmp.id, username |-> call.tmp.username])]
                /\ txq' = txq
  /\ Continue(c)
  /\ UNCHANGED <<impl, sw, version, storeNames, store, keyGen, _db, opens, clock, now, hist>>

\* The username the login handler passes to verifyUser
\* bp: fd.get('username')   v1: value.trim()
LoginFormUsername(i, username) == IF i = "bp" THEN username ELSE trim(username)

\* submit of the login form
LoginSubmit(c, username, pin) ==
  VerifyUser(c, LoginFormUsername(impl, username), pin, "form")

\* click on logout-btn: sessionStorage.removeItem('bp_user'); currentUser =
\* null; then DB.hasUsers() chooses the tab of the authentication screen
Logout(c) ==
  /\ FreeSlot(c)
  /\ currentUser' = Null
  /\ bp_user' = Null
  /\ StartOp(c, [NewCall("hasUsers", <<>>) EXCEPT !.via = "form"],
             Tx(c, "users", IF impl = "bp" THEN "count" ELSE "getAll", <<>>))
  /\ page' = Destroyed(page)
  /\ UNCHANGED <<impl, sw, version, storeNames, store, keyGen, _db, clock, now>>

HasUsersCall(c) ==
  /\ FreeSlot(c)
  /\ StartOp(c, NewCall("hasUsers", <<>>),
             Tx(c, "users", IF impl = "bp" THEN "count" ELSE "getAll", <<>>))
  /\ Frame

\* tick: how far Date.now() has moved when the next call reads it
AddExpense(c, userId, f, tick, via) ==
  /\ FreeSlot(c)
  /\ LET call == [NewCall("addExpense", [userId |-> userId, f |-> f]) EXCEPT !.via = via]
     IN  IF AddExpenseError(impl, f) # ""
           THEN Throw(c, call, AddExpenseError(impl, f))
           ELSE StartOp(c, [call EXCEPT !.txst = "live"],
                        Tx(c, "expenses", "add", ExpenseRecord(impl, userId, f, clock)))
  /\ clock' = clock + tick
  /\ UNCHANGED <<impl, session, page, sw, version, storeNames, store, keyGen, _db, now>>

\* DB.addExpense(userId, fields) called directly
AddExpenseCall(c, userId, f, tick) == AddExpense(c, userId, f, tick, "api")

GetExpensesCall(c, userId, period, category) ==
  /\ FreeSlot(c)
  /\ StartOp(c, NewCall("getExpenses",
                        [userId |-> userId, period |-> period, category |-> category]),
             Tx(c, "expenses", "getAll", <<>>))
  /\ Frame

StatsByCategoryCall(c, userId, period) ==
  /\ FreeSlot(c)
  /\ StartOp(c, NewCall("statsByCategory", [userId |-> userId, period |-> period]),
             Tx(c, "expenses", "getAll", <<>>))
  /\ Frame

StatsByDayCall(c, userId, period) ==
  /\ FreeSlot(c)
  /\ StartOp(c, NewCall("statsByDay", [userId |-> userId, period |-> period]),
             Tx(c, "expenses", "getAll", <<>>))
  /\ Frame

StatsByMonthCall(c, userId) ==
  /\ FreeSlot(c)
  /\ StartOp(c, NewCall("statsByMonth", [userId |-> userId]),
             Tx(c, "expenses", "getAll", <<>>))
  /\ Frame

DeleteExpenseCall(c, userId, id) ==
  /\ FreeSlot(c)
  /\ StartOp(c, NewCall("deleteExpense", [userId |-> userId, id |-> id]),
             Tx(c, "expenses", "get", id))
  /\ Frame

\* _get(storeName, key) (v1: dbGet(store, key)), called on its own
_get(c, storeName, key) ==
  /\ FreeSlot(c)
  /\ StartOp(c, NewCall("_get", [store |-> storeName, key |-> key]),
             Tx(c, storeName, "get", key))
  /\ Frame

\* _delete(storeName, key) (v1: dbDelete(store, key)), called on its own
_delete(c, storeName, key) ==
  /\ FreeSlot(c)
  /\ StartOp(c, [NewCall("_delete", [store |-> storeName, key |-> key]) EXCEPT !.txst = "live"],
             Tx(c, storeName, "delete", key))
  /\ Frame

\* The events of the browser on an open database: a transaction runs its
\* request, commits or aborts; a digest completes
StoreEvents ==
  \/ \E k \in 1..Len(txq) : ExecIndex(k)
  \/ \E k \in 1..Len(txq) : ExecGet(k)
  \/ \E k \in 1..Len(txq) : ExecGetAll(k)
  \/ \E k \in 1..Len(txq) : ExecCount(k)
  \/ \E k \in 1..Len(txq) : ExecAdd(k)
  \/ \E k \in 1..Len(txq) : ExecDelete(k)
  \/ \E k \in 1..Len(txq) : Commit(k)
  \/ \E k \in 1..Len(txq) : Abort(k)
  \/ \E c \in Slots : HashDone(c)

\* The events of the browser: those, and an open request that completes
Events ==
  \/ StoreEvents
  \/ OpenSuccess
  \/ OpenError

-----------------------------------------------------------------------------
(* Initial states *)

NoHistory ==
  [returned  |-> [n \in StoreNames |-> <<>>],
   committed |-> [n \in StoreNames |-> {}],
   nOpen |-> 0, nConn |-> 0]

\* A date the application runs on: Sunday 2024-03-10
Today == <<2024, 3, 10>>

\* The database is open at the version of the build, its stores are empty
InitOpened ==
  /\ impl \in {"bp", "v1"}
  /\ version = DB_VERSION(impl)
  /\ storeNames = StoreNames
  /\ store = [n \in StoreNames |-> {}]
  /\ keyGen = [n \in StoreNames |-> 0]
  /\ _db = 1
  /\ opens = <<>>
  /\ txq = <<>>
  /\ calls = [c \in Slots |-> IdleCall]
  /\ currentUser = Null
  /\ bp_user = Null
  /\ page = NoPage
  /\ sw = NoWorker
  /\ clock = 1
  /\ now = [date |-> Today, dow |-> getDay(Today), skew |-> 0]
  /\ hist = [NoHistory EXCEPT !.nOpen = 1, !.nConn = 1]

-----------------------------------------------------------------------------
(* The inputs the calls are made with *)

Bob == <<"b", "o", "b">>
BobRaw == <<" ", "B", "o", "b">>
Pin1234 == <<"1", "2", "3", "4">>
Pin9999 == <<"9", "9", "9", "9">>

Taxi ==
  [name |-> Str(<<"T", "a", "x", "i">>), amount |-> Num(1500 * Scale),
   category |-> "Transport", date |-> <<2024, 3, 10>>,
   hour |-> Str(<<"8">>), minute |-> Str(<<"3", "0">>)]

-----------------------------------------------------------------------------
(* The store layer under overlapping inserts and deletes, with commits that   *)
(* may fail                                                                   *)

NextStore ==
  \/ \E c \in Slots : CreateUserCall(c, Bob, Pin1234)
  \/ \E c \in Slots : AddExpenseCall(c, 1, Taxi, 1)
  \/ \E c \in Slots : DeleteExpenseCall(c, 1, 1)
  \/ \E k \in 1..Len(txq) : ExecIndex(k)
  \/ \E k \in 1..Len(txq) : ExecGet(k)
  \/ \E k \in 1..Len(txq) : ExecAdd(k)
  \/ \E k \in 1..Len(txq) : ExecDelete(k)
  \/ \E k \in 1..Len(txq) : Commit(k)
  \/ \E k \in 1..Len(txq) : Abort(k)
  \/ \E c \in Slots : HashDone(c)

SpecStore == InitOpened /\ [][NextStore]_vars

-----------------------------------------------------------------------------
(* Claims about the store layer *)

IsInsert(c) == calls[c].op \in {"createUser", "addExpense"}
Build(b) == impl = b

\* C4: within a collection, every insert that resolved was given a key greater
\* than the key of every insert that resolved before it: no key is handed out
\* twice, whether the inserts overlap or the record has been deleted since.
C4_KeysNeverReused ==
  \A n \in StoreNames : \A i, j \in 1..Len(hist.returned[n]) :
    i < j => hist.returned[n][i] < hist.returned[n][j]

\* The same, of the build of src/bp/db.js alone
C4_KeysNeverReused_bp == Build("bp") => C4_KeysNeverReused

\* C5: an insert has resolved with key k only if the record with key k has
\* been committed to its collection.
C5_ResolvedOnlyAfterCommit ==
  \A n \in StoreNames : \A i \in 1..Len(hist.returned[n]) :
    hist.returned[n][i] \in hist.committed[n]

C5_ResolvedOnlyAfterCommit_bp == Build("bp") => C5_ResolvedOnlyAfterCommit

\* C6: an insert is atomic: when its transaction failed or aborted, its promise
\* is rejected and no record of it is stored; when its promise is resolved and
\* its transaction is over, its record was committed; when its promise is
\* rejected, no record of it was committed.
C6_InsertAtomic ==
  \A c \in Slots : IsInsert(c) =>
    /\ calls[c].txst = "aborted" => calls[c].out.st = "err"
    /\ calls[c].out.st = "err" => calls[c].txst # "complete"
    /\ (calls[c].out.st = "ok" /\ calls[c].txst # "live") => calls[c].txst = "complete"

C6_InsertAtomic_bp == Build("bp") => C6_InsertAtomic

-----------------------------------------------------------------------------
(* Accounts: registrations and logins that may overlap *)

Usernames == {Bob, BobRaw}
Pins == {Pin1234, Pin9999}

NextUsers ==
  \/ \E c \in Slots, u \in Usernames : CreateUserCall(c, u, Pin1234)
  \/ \E c \in Slots, u \in Usernames, p \in Pins : VerifyUserCall(c, u, p)
  \/ \E k \in 1..Len(txq) : ExecIndex(k)
  \/ \E k \in 1..Len(txq) : ExecAdd(k)
  \/ \E k \in 1..Len(txq) : Commit(k)
  \/ \E k \in 1..Len(txq) : Abort(k)
  \/ \E c \in Slots : HashDone(c)

SpecUsers == InitOpened /\ [][NextUsers]_vars

\* verifyUser d was called right after createUser c had resolved, while no
\* other call was unsettled, with the username and the PIN of c
RightAfterRegister(c, d) ==
  /\ d = c + 1
  /\ calls[c].op = "createUser" /\ calls[c].out.st = "ok"
  /\ calls[d].op = "verifyUser" /\ calls[d].alone
  /\ calls[d].arg.username = calls[c].arg.username
  /\ calls[d].arg.pin = calls[c].arg.pin

\* C8: authenticate(username, pin) called immediately after a successful
\* register(username, pin) succeeds and returns the id that register returned.
C8_AuthenticateAfterRegister ==
  \A c, d \in Slots :
    (RightAfterRegister(c, d) /\ calls[d].pc = "done") =>
      /\ calls[d].out.st = "ok"
      /\ calls[d].out.val.id = calls[c].out.val.id

C8_AuthenticateAfterRegister_bp == Build("bp") => C8_AuthenticateAfterRegister

\* createUser c was called with a username whose trimmed, lowercased form is
\* the username of a user stored at that time
NameTaken(c) ==
  /\ calls[c].op = "createUser"
  /\ \E r \in calls[c].pre["users"] : r.username = toLowerCase(trim(calls[c].arg.username))

\* C9: register with a username whose normalized form is that of a stored user
\* fails with the duplicate-user error and adds no user record: the call never
\* gets to its insert.
C9_DuplicateRegisterFails ==
  \A c \in Slots : NameTaken(c) =>
    /\ calls[c].pc \in {"wait", "done"}
    /\ calls[c].txst = "none"
    /\ calls[c].pc = "done" => calls[c].out = Err(DuplicateMsg(impl))

C9_DuplicateRegisterFails_bp == Build("bp") => C9_DuplicateRegisterFails

\* C10: no two user records have the same username, also when two
\* registrations of one username overlap.
C10_UsernamesUnique ==
  \A r1, r2 \in store["users"] : r1.username = r2.username => r1 = r2

\* Two registrations of one username both passed the existence check; one was
\* committed and the unique index refused the other
C10_Witness ==
  \E c, d \in Slots :
    /\ c # d
    /\ calls[c].op = "createUser" /\ calls[d].op = "createUser"
    /\ calls[c].arg.u = calls[d].arg.u
    /\ calls[c].txst = "complete"
    /\ calls[d].txst = "aborted" /\ calls[d].out = Err(WriteErrorMsg(impl))

-----------------------------------------------------------------------------
(* Expenses of two users: adds, deletes and queries that may overlap *)

Lola == <<"l", "o", "l", "a">>

\* The record a committed add of obj with the key k left in its store
Seeded(obj, k) == Stored([arg |-> obj, key |-> k])

\* The database is open and holds two users with one expense each
InitSeeded ==
  /\ impl \in {"bp", "v1"}
  /\ version = DB_VERSION(impl)
  /\ storeNames = StoreNames
  /\ store = [n \in StoreNames |->
                IF n = "users"
                  THEN {Seeded(UserRecord(impl, Bob, Pin1234, 1), 1),
                        Seeded(UserRecord(impl, Lola, Pin9999, 2), 2)}
                  ELSE {Seeded(ExpenseRecord(impl, 1, Taxi, 3), 1),
                        Seeded(ExpenseRecord(impl, 2, Taxi, 4), 2)}]
  /\ keyGen = [n \in StoreNames |-> 2]
  /\ _db = 1
  /\ opens = <<>>
  /\ txq = <<>>
  /\ calls = [c \in Slots |-> IdleCall]
  /\ currentUser = Null
  /\ bp_user = Null
  /\ page = NoPage
  /\ sw = NoWorker
  /\ clock = 5
  /\ now = [date |-> Today, dow |-> getDay(Today), skew |-> 0]
  /\ hist = [returned  |-> [n \in StoreNames |-> <<1, 2>>],
             committed |-> [n \in StoreNames |-> {1, 2}],
             nOpen |-> 1, nConn |-> 1]

UserIds == {1, 2}
ExpenseIds == {1, 3}

NextExpenses ==
  \/ \E c \in Slots, u \in UserIds : AddExpenseCall(c, u, Taxi, 1)
  \/ \E c \in Slots, u \in UserIds, id \in ExpenseIds : DeleteExpenseCall(c, u, id)
  \/ \E c \in Slots, u \in UserIds : GetExpensesCall(c, u, "all", "Toutes")
  \/ \E k \in 1..Len(txq) : ExecGet(k)
  \/ \E k \in 1..Len(txq) : ExecGetAll(k)
  \/ \E k \in 1..Len(txq) : ExecAdd(k)
  \/ \E k \in 1..Len(txq) : ExecDelete(k)
  \/ \E k \in 1..Len(txq) : Commit(k)
  \/ \E k \in 1..Len(txq) : Abort(k)

SpecExpenses == InitSeeded /\ [][NextExpenses]_vars

\* getExpenses c has read the store and returned
Queried(c) ==
  /\ calls[c].op = "getExpenses" /\ calls[c].pc = "done" /\ calls[c].out.st = "ok"
  /\ calls[c].arg.period = "all" /\ calls[c].arg.category = "Toutes"

Looked(c) ==
  /\ calls[c].op = "deleteExpense"
  /\ calls[c].pc = "done" \/ calls[c].txst # "none"

\* C2: deleteExpense(userId, id) on an expense of another user, or on an id
\* that is not stored, fails with 'Depense introuvable.' and starts no write:
\* the store is as it was.
C2_DeleteNotOwned ==
  \A c \in Slots :
    (Looked(c) /\ (calls[c].tmp = {} \/ \E e \in calls[c].tmp : e.user_id # calls[c].arg.userId))
      => /\ calls[c].pc = "done"
         /\ calls[c].out = Err("Depense introuvable.")
         /\ calls[c].txst = "none"

\* One delete refused for an expense of another user, which is still stored,
\* and one refused for an id that is not stored
C2_Witness ==
  \E c, d \in Slots :
    /\ Looked(c) /\ Looked(d)
    /\ \E e \in calls[c].tmp : e.user_id # calls[c].arg.userId /\ e \in store["expenses"]
    /\ calls[c].out = Err("Depense introuvable.")
    /\ calls[d].tmp = {}
    /\ calls[d].out = Err("Depense introuvable.")

-----------------------------------------------------------------------------
(* addExpense with the amounts a caller may pass *)

Amounts ==
  {Num(1500 * Scale), Num(0), Num(0 - 2 * Scale), NaN, Undef,
   Str(<<>>), Str(<<"0">>), Str(<<"-", "5">>), Str(<<"1", "2", ".", "5">>),
   Str(<<"a", "b", "c">>), Str(<<"1", "2", "a">>)}

NextAmounts ==
  \/ \E c \in Slots, a \in Amounts : AddExpenseCall(c, 1, [Taxi EXCEPT !.amount = a], 1)
  \/ \E k \in 1..Len(txq) : ExecAdd(k)
  \/ \E k \in 1..Len(txq) : Commit(k)
  \/ \E k \in 1..Len(txq) : Abort(k)

SpecAmounts == InitOpened /\ [][NextAmounts]_vars

\* The amount is 0, negative or not a number
InvalidAmount(v) == LET x == ToNumber(v) IN x.t # "num" \/ x.n <= 0

\* C3: addExpense with an amount that is 0, negative or not a number fails with
\* the validation error and starts no write: the expenses store has as many
\* records after the call as before it.
C3_InvalidAmountRejected ==
  \A c \in Slots :
    (calls[c].op = "addExpense" /\ InvalidAmount(calls[c].arg.f.amount)) =>
      /\ calls[c].pc = "done"
      /\ calls[c].out = Err(AddExpenseError(impl, calls[c].arg.f))
      /\ calls[c].out.err # ""
      /\ calls[c].txst = "none"

C3_InvalidAmountRejected_bp == Build("bp") => C3_InvalidAmountRejected

-----------------------------------------------------------------------------
(* Startup: the first calls of a page, made before the database is open *)

Versions == {0, 1, 5}

\* The page is loaded: no connection yet.  The persisted database is absent
\* (version 0) or was left by an earlier run with two users and their expenses
InitCold ==
  /\ impl \in {"bp", "v1"}
  /\ version \in Versions
  /\ storeNames = IF version = 0 THEN {} ELSE StoreNames
  /\ store = [n \in StoreNames |->
                IF version = 0 THEN {}
                ELSE IF n = "users"
                  THEN {Seeded(UserRecord(impl, Bob, Pin1234, 1), 1),
                        Seeded(UserRecord(impl, Lola, Pin9999, 2), 2)}
                  ELSE {Seeded(ExpenseRecord(impl, 1, Taxi, 3), 1),
                        Seeded(ExpenseRecord(impl, 2, Taxi, 4), 2)}]
  /\ keyGen = [n \in StoreNames |-> IF version = 0 THEN 0 ELSE 2]
  /\ _db = 0
  /\ opens = <<>>
  /\ txq = <<>>
  /\ calls = [c \in Slots |-> IdleCall]
  /\ currentUser = Null
  /\ bp_user = Null
  /\ page = NoPage
  /\ sw = NoWorker
  /\ clock = 5
  /\ now = [date |-> Today, dow |-> getDay(Today), skew |-> 0]
  /\ hist = NoHistory

NextOpen ==
  \/ \E c \in Slots : HasUsersCall(c)
  \/ \E c \in Slots, u \in UserIds : GetExpensesCall(c, u, "all", "Toutes")
  \/ \E c \in Slots : AddExpenseCall(c, 1, Taxi, 1)
  \/ OpenSuccess
  \/ OpenError
  \/ \E k \in 1..Len(txq) : ExecGetAll(k)
  \/ \E k \in 1..Len(txq) : ExecCount(k)
  \/ \E k \in 1..Len(txq) : ExecAdd(k)
  \/ \E k \in 1..Len(txq) : Commit(k)
  \/ \E k \in 1..Len(txq) : Abort(k)

SpecOpen == InitCold /\ [][NextOpen]_vars

\* C7: however many calls of openDB() overlap, indexedDB.open is called once and
\* every caller gets the same connection; once it is open, calls get the cached
\* connection.
C7_SingleOpen ==
  /\ hist.nOpen <= 1
  /\ \A c, d \in Slots :
       (calls[c].db # 0 /\ calls[d].db # 0) => calls[c].db = calls[d].db

-----------------------------------------------------------------------------
(* Claims about verifyUser *)

\* verifyUser c has settled
Verified(c) == calls[c].op = "verifyUser" /\ calls[c].pc = "done"

\* The users that verifyUser c read whose username is the trimmed, lowercased
\* form of the username it was called with
Matching(c) ==
  {r \in calls[c].seen : r.username = toLowerCase(trim(calls[c].arg.username))}

\* C11: verifyUser fails with 'Utilisateur introuvable.' when no user has the
\* normalized username, with 'Code PIN incorrect.' when that user's stored hash
\* is not the hash of the PIN, and otherwise returns the user's {id, username};
\* in each case it starts no write on the users store.
C11_AuthenticateOutcomes ==
  \A c \in Slots : Verified(c) =>
    /\ calls[c].txst = "none"
    /\ Matching(c) = {} => calls[c].out = Err("Utilisateur introuvable.")
    /\ \A r \in Matching(c) :
         IF r.pinHash # _hash(impl, calls[c].arg.pin)
           THEN calls[c].out = Err("Code PIN incorrect.")
           ELSE calls[c].out = Ok([id |-> r.id, username |-> r.username])

C11_AuthenticateOutcomes_bp == Build("bp") => C11_AuthenticateOutcomes

-----------------------------------------------------------------------------
(* Registration through the form: the submit handler of form-reg (v1:        *)
(* register-form), then DB.createUser                                        *)

\* A test that lets every PIN through
PinPattern_Mutant(pin) == TRUE

\* /^\d{4,6}$/.test(pin)
PinPattern(pin) == Len(pin) \in 4..6 /\ \A i \in 1..Len(pin) : IsDigit(pin[i])

\* The message the handler shows instead of calling createUser, "" when none
\* bp: if (!username || username.trim().length < 2)
\* v1: username = value.trim(); if (!username || username.length < 3)
RegFormError(i, username, pin, pin2) ==
  IF i = "bp" /\ (username = <<>> \/ Len(trim(username)) < 2)
    THEN "Nom trop court (2 caracteres min)."
  ELSE IF i = "v1" /\ Len(trim(username)) < 3
    THEN "Le nom doit faire au moins 3 caracteres."
  ELSE IF ~PinPattern(pin) THEN "Le PIN doit etre 4 a 6 chiffres."
  ELSE IF pin # pin2 THEN "Les PINs ne correspondent pas."
  ELSE ""

\* The username the handler passes to createUser
RegFormUsername(i, username) == IF i = "bp" THEN username ELSE trim(username)

\* submit of the registration form
RegSubmit(c, username, pin, pin2) ==
  IF RegFormError(impl, username, pin, pin2) # ""
    THEN /\ FreeSlot(c)
         /\ Throw(c, NewCall("form-reg", [username |-> username, pin |-> pin,
                                          u |-> NormalizeUsername(impl, username)]),
                  RegFormError(impl, username, pin, pin2))
         /\ Frame
    ELSE CreateUser(c, RegFormUsername(impl, username), pin, "form")

OneLetter == <<" ", "b", " ">>
TwoLetters == <<"B", "o">>
Pin123 == <<"1", "2", "3">>
Pin123a == <<"1", "2", "3", "a">>
Pin1234567 == <<"1", "2", "3", "4", "5", "6", "7">>

\* What is typed in the form: username, PIN, PIN again
RegInputs ==
  {<<Bob, Pin1234, Pin1234>>, <<Bob, Pin1234, Pin9999>>, <<OneLetter, Pin1234, Pin1234>>,
   <<TwoLetters, Pin9999, Pin9999>>, <<Bob, Pin123, Pin123>>, <<Bob, Pin123a, Pin123a>>,
   <<Lola, Pin1234567, Pin1234567>>}

NextRegister ==
  \/ \E c \in Slots, typed \in RegInputs : RegSubmit(c, typed[1], typed[2], typed[3])
  \/ \E k \in 1..Len(txq) : ExecIndex(k)
  \/ \E k \in 1..Len(txq) : ExecAdd(k)
  \/ \E k \in 1..Len(txq) : Commit(k)
  \/ \E k \in 1..Len(txq) : Abort(k)
  \/ \E c \in Slots : HashDone(c)

SpecRegister == InitOpened /\ [][NextRegister]_vars

\* c is a registration: a submit the handler refused, or a call of createUser
IsRegister(c) == calls[c].op \in {"form-reg", "createUser"}

\* A string of 4 to 6 digits
ValidPin(pin) ==
  /\ Len(pin) >= 4 /\ Len(pin) <= 6
  /\ \A i \in 1..Len(pin) : pin[i] \in {"0", "1", "2", "3", "4", "5", "6", "7", "8", "9"}

-----------------------------------------------------------------------------
(* Queries over a store that holds the expenses of several days *)

\* What the expense form gives addExpense
Entry(amount, category, date, hour, minute) ==
  [name |-> Str(<<"T", "a", "x", "i">>), amount |-> Num(amount),
   category |-> category, date |-> date, hour |-> Str(hour), minute |-> Str(minute)]

\* The expenses stored, as <<user, fields>> in the order of their keys: of
\* user 1 on several days of October 2024 (two of them in the same minute, one
\* dated the 28th) and of March 2024, and one of user 2
Ledger ==
  <<
    <<1, Entry(1000 * Scale, "Transport",    <<2024, 10, 20>>, <<"9">>, <<"0">>)>>,
    <<1, Entry(2500 * Scale, "Alimentation", <<2024, 10, 21>>, <<"1", "2">>, <<"1", "5">>)>>,
    <<1, Entry(1500 * Scale, "Transport",    <<2024, 10, 25>>, <<"8">>, <<"3", "0">>)>>,
    <<1, Entry(1500 * Scale, "Transport",    <<2024, 10, 27>>, <<"8">>, <<"3", "0">>)>>,
    <<1, Entry(12500,        "Alimentation", <<2024, 10, 27>>, <<"8">>, <<"3", "0">>)>>,
    <<2, Entry(4000 * Scale, "Transport",    <<2024, 10, 27>>, <<"1", "0">>, <<"0">>)>>,
    <<1, Entry(300 * Scale,  "Transport",    <<2024, 10, 28>>, <<"7">>, <<"5">>)>>,
    <<1, Entry(800 * Scale,  "Loisirs",      <<2024, 3, 29>>, <<"2", "0">>, <<"0">>)>>,
    <<1, Entry(650 * Scale,  "Transport",    <<2024, 3, 30>>, <<"7">>, <<"4", "5">>)>>,
    <<1, Entry(2000 * Scale, "Alimentation", <<2024, 10, 27>>, <<"1", "8">>, <<"4", "5">>)>>
  >>

\* new Date() at date d; skew is 0, or the day by which now - k * 864e5 misses
\* the date k days back
At(d, skew) == [date |-> d, dow |-> getDay(d), skew |-> skew]

\* The database is open and holds two users and the expenses of the ledger;
\* it is now one of nows
InitLedger(nows) ==
  /\ impl \in {"bp", "v1"}
  /\ version = DB_VERSION(impl)
  /\ storeNames = StoreNames
  /\ store = [n \in StoreNames |->
                IF n = "users"
                  THEN {Seeded(UserRecord(impl, Bob, Pin1234, 1), 1),
                        Seeded(UserRecord(impl, Lola, Pin9999, 2), 2)}
                  ELSE {Seeded(ExpenseRecord(impl, Ledger[k][1], Ledger[k][2], k + 2), k)
                          : k \in 1..Len(Ledger)}]
  /\ keyGen = [n \in StoreNames |-> IF n = "users" THEN 2 ELSE Len(Ledger)]
  /\ _db = 1
  /\ opens = <<>>
  /\ txq = <<>>
  /\ calls = [c \in Slots |-> IdleCall]
  /\ currentUser = Null
  /\ bp_user = Null
  /\ page = NoPage
  /\ sw = NoWorker
  /\ clock = Len(Ledger) + 3
  /\ now \in nows
  /\ hist = [returned  |-> [n \in StoreNames |-> <<>>],
             committed |-> [n \in StoreNames |-> {r.id : r \in store[n]}],
             nOpen |-> 1, nConn |-> 1]

\* Sunday 2024-10-27 (in Europe the day the clocks go back: at 23:30, 48 hours
\* ago was Saturday 00:30), Saturday 2024-10-26, Monday 2024-10-21, and Monday
\* 2024-04-01 (at 00:30, the day after the clocks went forward: 48 hours ago
\* was Friday 23:30)
QueryNows ==
  {At(<<2024, 10, 27>>, 0), At(<<2024, 10, 27>>, 1), At(<<2024, 10, 26>>, 0),
   At(<<2024, 10, 21>>, 0), At(<<2024, 4, 1>>, 0 - 1)}

InitQuery == InitLedger(QueryNows)

\* The period and the category of a query
QueryInputs ==
  {<<"today", "Toutes">>, <<"3days", "Toutes">>, <<"3days", "Transport">>,
   <<"week", "Toutes">>,
   <<"all", "Toutes">>, <<"all", "Transport">>, <<"all", "">>}

NextQuery ==
  \/ \E c \in Slots, q \in QueryInputs : GetExpensesCall(c, 1, q[1], q[2])
  \/ \E k \in 1..Len(txq) : ExecGetAll(k)

SpecQuery == InitQuery /\ [][NextQuery]_vars

-----------------------------------------------------------------------------
(* Claims about getExpenses *)

\* getExpenses c has returned
Returned(c) ==
  calls[c].op = "getExpenses" /\ calls[c].pc = "done" /\ calls[c].out.st = "ok"

\* The stored expenses of the user of query c, as c read them
Mine(c) == {e \in calls[c].tmp : e.user_id = calls[c].arg.userId}

\* The list that c returned holds exactly the records of S, each once
ReturnsExactly(c, S) ==
  LET list == calls[c].out.val
  IN  {list[i] : i \in 1..Len(list)} = S /\ Len(list) = Cardinality(S)

\* e is of the category that c asks for
OfCategory(e, c) ==
  calls[c].arg.category = "Toutes" \/ e.category = calls[c].arg.category

\* C13: getExpenses(u, 'today', 'Toutes') returns exactly the stored expenses
\* of u whose date is today's date.
C13_TodayFilter ==
  \A c \in Slots :
    (Returned(c) /\ calls[c].arg.period = "today" /\ calls[c].arg.category = "Toutes")
      => ReturnsExactly(c, {e \in Mine(c) : e.date = now.date})

\* A query of today that returned an expense and left out expenses of the
\* user with an earlier and with a later date
C13_Witness ==
  \E c \in Slots :
    /\ Returned(c) /\ calls[c].arg.period = "today"
    /\ Len(calls[c].out.val) >= 1
    /\ \E e \in Mine(c) : DateLess(e.date, now.date)
    /\ \E e \in Mine(c) : DateLess(now.date, e.date)

\* a is not after b in the order: date, hour, minute, insertion timestamp, all
\* descending
NotAfter(a, b) ==
  \/ DateLess(b.date, a.date)
  \/ a.date = b.date /\ a.hour > b.hour
  \/ a.date = b.date /\ a.hour = b.hour /\ a.minute > b.minute
  \/ a.date = b.date /\ a.hour = b.hour /\ a.minute = b.minute /\ a.ts >= b.ts

\* C14: whatever the period and the category, the list returned is in
\* descending order of date, then hour, then minute, then insertion timestamp.
C14_Ordering ==
  \A c \in Slots : Returned(c) =>
    LET list == calls[c].out.val
    IN  \A i, j \in 1..Len(list) : i < j => NotAfter(list[i], list[j])

C14_Ordering_bp == Build("bp") => C14_Ordering

\* C15: getExpenses(u, '3days', c) returns exactly the expenses of u, of
\* category c, dated from two days before today to today.
C15_ThreeDays ==
  \A c \in Slots :
    (Returned(c) /\ calls[c].arg.period = "3days") =>
      ReturnsExactly(c, {e \in Mine(c) :
        /\ OfCategory(e, c)
        /\ DateGeq(e.date, AddDays(now.date, 0 - 2))
        /\ DateGeq(now.date, e.date)})

\* The Monday of the week of d, Sunday being the 7th day
Monday(d) == AddDays(d, 1 - (IF getDay(d) = 0 THEN 7 ELSE getDay(d)))

\* C16: getExpenses(u, 'week', c) returns exactly the expenses of u, of
\* category c, dated on or after the Monday of the current week.
C16_Week ==
  \A c \in Slots :
    (Returned(c) /\ calls[c].arg.period = "week") =>
      ReturnsExactly(c, {e \in Mine(c) :
        OfCategory(e, c) /\ DateGeq(e.date, Monday(now.date))})

C16_Week_v1 == Build("v1") => C16_Week

\* C17: with a category other than 'Toutes', getExpenses returns exactly the
\* expenses of the user in the period whose category is that category; with
\* 'Toutes', exactly the expenses of the user in the period.
C17_CategoryFilter ==
  \A c \in Slots : Returned(c) =>
    ReturnsExactly(c, {e \in Mine(c) :
      /\ PeriodKeeps(e, impl, calls[c].arg.period, now)
      /\ calls[c].arg.category # "Toutes" => e.category = calls[c].arg.category})

C17_CategoryFilter_v1 == Build("v1") => C17_CategoryFilter

-----------------------------------------------------------------------------
(* The statistics of the charts, over the same store *)

\* Sunday 2024-10-27, Monday 2024-01-15 (every expense of the ledger is in a
\* later month), Monday 2025-02-10 (the twelve months span two years) and
\* Saturday 2025-05-10 (the expenses of March 2024 are older than twelve months)
StatsNows ==
  {At(<<2024, 10, 27>>, 0), At(<<2024, 1, 15>>, 0), At(<<2025, 2, 10>>, 0),
   At(<<2025, 5, 10>>, 0)}

InitStats == InitLedger(StatsNows)

StatsPeriods == {"all", "today"}

NextStats ==
  \/ \E c \in Slots, p \in StatsPeriods : StatsByCategoryCall(c, 1, p)
  \/ \E c \in Slots, p \in StatsPeriods : StatsByDayCall(c, 1, p)
  \/ \E c \in Slots : StatsByMonthCall(c, 1)
  \/ \E k \in 1..Len(txq) : ExecGetAll(k)

SpecStats == InitStats /\ [][NextStats]_vars

\* The call c of op has returned
Computed(c, op) == calls[c].op = op /\ calls[c].pc = "done" /\ calls[c].out.st = "ok"

\* The expenses that getExpenses(userId, period, 'Toutes') gives the call c,
\* as a set
QueriedSet(c) ==
  LET list == getExpenses(impl, calls[c].tmp, calls[c].arg.userId,
                          calls[c].arg.period, "Toutes", now)
  IN  {list[i] : i \in 1..Len(list)}

\* The sum of the amounts of the expenses of S, in thousandths
RECURSIVE AmountSum(_)
AmountSum(S) ==
  IF S = {} THEN 0
  ELSE LET e == CHOOSE x \in S : TRUE IN e.amount.n + AmountSum(S \ {e})

\* C18: the keys of statsByCategory(u, period) are exactly the categories of
\* the expenses of getExpenses(u, period, 'Toutes'), and the value of a key is
\* the sum of the amounts of those of that category; no other category is a
\* key.
C18_SumByCategory ==
  \A c \in Slots : Computed(c, "statsByCategory") =>
    LET S == QueriedSet(c)
    IN  /\ DOMAIN calls[c].out.val = {e.category : e \in S}
        /\ \A k \in DOMAIN calls[c].out.val :
             calls[c].out.val[k] = Num(AmountSum({e \in S : e.category = k}))

\* Statistics of today with two categories, one of them summed over two
\* expenses, while the user has an expense of a third category on another day
C18_Witness ==
  \E c \in Slots :
    /\ Computed(c, "statsByCategory") /\ calls[c].arg.period = "today"
    /\ Cardinality(DOMAIN calls[c].out.val) = 2
    /\ \E k \in DOMAIN calls[c].out.val :
         Cardinality({e \in QueriedSet(c) : e.category = k}) = 2
    /\ \E e \in calls[c].tmp :
         e.user_id = calls[c].arg.userId /\ e.category \notin DOMAIN calls[c].out.val

\* The dates of S before d
Earlier(S, d) == {x \in {e.date : e \in S} : DateLess(x, d)}

\* C19: statsByDay(u, period) returns as many labels as values, one for each
\* date of the queried expenses; the label of the i-th date in ascending order
\* is its day and month, DD/MM, and the value is the sum of the amounts of
\* the expenses of that date.
C19_SumByDay ==
  \A c \in Slots : Computed(c, "statsByDay") =>
    LET S      == QueriedSet(c)
        dates  == {e.date : e \in S}
        labels == calls[c].out.val.labels
        data   == calls[c].out.val.data
    IN  /\ Len(labels) = Cardinality(dates)
        /\ Len(data) = Cardinality(dates)
        /\ \A d \in dates :
             LET i == Cardinality(Earlier(S, d)) + 1
             IN  /\ labels[i] = <<d[3], d[2]>>
                 /\ data[i] = Num(AmountSum({e \in S : e.date = d}))

\* Statistics by day over several dates, one of them with several expenses
C19_Witness ==
  \E c \in Slots :
    /\ Computed(c, "statsByDay")
    /\ Len(calls[c].out.val.labels) >= 3
    /\ \E d \in {e.date : e \in QueriedSet(c)} :
         Cardinality({e \in QueriedSet(c) : e.date = d}) >= 2

\* The j-th of the twelve months that end with the month of d, as <<year, month>>
TrailingMonth(d, j) ==
  LET idx == 12 * d[1] + (d[2] - 1) - 12 + j
  IN  <<idx \div 12, (idx % 12) + 1>>

\* C20: statsByMonth(u) returns 12 labels and 12 values: the j-th label is the
\* j-th of the twelve months that end with the current month, and the j-th
\* value is the sum of the amounts of the expenses of u in that month, 0 when
\* there is none.
C20_SumByMonth ==
  \A c \in Slots : Computed(c, "statsByMonth") =>
    LET labels == calls[c].out.val.labels
        data   == calls[c].out.val.data
        mine   == {e \in calls[c].tmp : e.user_id = calls[c].arg.userId}
    IN  /\ Len(labels) = 12 /\ Len(data) = 12
        /\ \A j \in 1..12 :
             LET ym == TrailingMonth(now.date, j)
             IN  /\ labels[j] = <<MN[ym[2]], ym[1]>>
                 /\ data[j] = Num(AmountSum({e \in mine :
                                     e.date[1] = ym[1] /\ e.date[2] = ym[2]}))

\* Statistics by month whose twelve months span two years, with a month that
\* has expenses and a month that has none
C20_Witness ==
  \E c \in Slots :
    /\ Computed(c, "statsByMonth")
    /\ calls[c].out.val.labels[1][2] # calls[c].out.val.labels[12][2]
    /\ \E j \in 1..12 : calls[c].out.val.data[j].n > 0
    /\ \E j \in 1..12 : calls[c].out.val.data[j] = Num(0)

-----------------------------------------------------------------------------
(* Statistics by month against statistics by category *)

\* The sum of the numbers of the sequence s
RECURSIVE SumSeq(_)
SumSeq(s) == IF s = <<>> THEN Num(0) ELSE Plus(Head(s), SumSeq(Tail(s)))

\* The sum of the values of the object map
RECURSIVE SumValues(_)
SumValues(map) ==
  IF DOMAIN map = {} THEN Num(0)
  ELSE LET k == CHOOSE x \in DOMAIN map : TRUE
       IN  Plus(map[k], SumValues([x \in DOMAIN map \ {k} |-> map[x]]))

\* The month of e is one of the twelve months that end with the month of d
InLastTwelve(e, d) == \E j \in 1..12 : TrailingMonth(d, j) = <<e.date[1], e.date[2]>>

C21_WitnessAll ==
  \E c, d \in Slots :
    /\ Computed(c, "statsByMonth")
    /\ Computed(d, "statsByCategory") /\ calls[d].arg.period = "all"
    /\ SumSeq(calls[c].out.val.data).n > 0
    /\ SumSeq(calls[c].out.val.data) = SumValues(calls[d].out.val)

-----------------------------------------------------------------------------
(* An expense is added, then read back *)

\* What the expense form may give addExpense: numbers or the strings of the
\* inputs, one amount with cents, one name with a space before it
Coffee ==
  [name |-> Str(<<"L", "a", "t", "t", "e">>), amount |-> Num(12500),
   category |-> "Alimentation", date |-> <<2024, 3, 9>>,
   hour |-> Num(7 * Scale), minute |-> Num(0)]
Padded == [Taxi EXCEPT !.name = Str(<<" ", "T", "a", "x", "i">>)]
RoundTripFields == {Taxi, Coffee, Padded}

NextRoundTrip ==
  \/ \E c \in Slots, f \in RoundTripFields : AddExpenseCall(c, 1, f, 1)
  \/ \E c \in Slots, u \in UserIds : GetExpensesCall(c, u, "all", "Toutes")
  \/ \E k \in 1..Len(txq) : ExecGetAll(k)
  \/ \E k \in 1..Len(txq) : ExecAdd(k)
  \/ \E k \in 1..Len(txq) : Commit(k)
  \/ \E k \in 1..Len(txq) : Abort(k)

SpecRoundTrip == InitSeeded /\ [][NextRoundTrip]_vars

\* v is the integer number n or its decimal string, lo <= n <= hi
IntegerIn(v, lo, hi) ==
  LET x == ToNumber(v)
  IN  v.t \in {"num", "str"} /\ x.t = "num" /\ x.n % Scale = 0
        /\ x.n >= lo * Scale /\ x.n <= hi * Scale

\* The fields are those of an expense: a trimmed name that is not empty, an
\* amount above 0 with at most two decimals, a category, a date, an hour and
\* a minute
ValidFields(f) ==
  /\ f.name.t = "str" /\ f.name.s # <<>> /\ trim(f.name.s) = f.name.s
  /\ ToNumber(f.amount).t = "num" /\ ToNumber(f.amount).n > 0
  /\ ToNumber(f.amount).n % 10 = 0
  /\ f.category # ""
  /\ f.date # <<>>
  /\ IntegerIn(f.hour, 0, 23) /\ IntegerIn(f.minute, 0, 59)

\* The record e has the values of the fields f
AsSupplied(e, f) ==
  /\ e.name = f.name.s
  /\ e.amount = ToNumber(f.amount)
  /\ e.category = f.category
  /\ e.date = f.date
  /\ e.hour = ToNumber(f.hour).n
  /\ e.minute = ToNumber(f.minute).n

\* getExpenses(u, 'all', 'Toutes') d was called right after addExpense(u, f) c
\* had resolved, while no other call was unsettled
ReadBack(c, d) ==
  /\ d = c + 1
  /\ calls[c].op = "addExpense" /\ calls[c].out.st = "ok"
  /\ calls[d].op = "getExpenses" /\ calls[d].alone
  /\ calls[d].arg.userId = calls[c].arg.userId
  /\ calls[d].arg.period = "all" /\ calls[d].arg.category = "Toutes"

\* The list that d returned has a record with the key that c returned and the
\* values of the fields of c
ReadsBack(c, d) ==
  \E i \in 1..Len(calls[d].out.val) :
    /\ calls[d].out.val[i].id = calls[c].out.val
    /\ AsSupplied(calls[d].out.val[i], calls[c].arg.f)

\* C22: after addExpense(u, f) with valid fields has resolved with a key,
\* getExpenses(u, 'all', 'Toutes') returns a record with that key whose name,
\* amount, category, date, hour and minute are those of f.
C22_RoundTrip ==
  \A c, d \in Slots :
    (ReadBack(c, d) /\ ValidFields(calls[c].arg.f) /\ calls[d].pc = "done")
      => ReadsBack(c, d)

C22_RoundTrip_bp == Build("bp") => C22_RoundTrip

\* An expense with valid fields was added and read back
C22_Witness ==
  \E c, d \in Slots :
    /\ ReadBack(c, d) /\ ValidFields(calls[c].arg.f) /\ calls[d].pc = "done"
    /\ calls[c].arg.f = Coffee
    /\ ReadsBack(c, d)

\* The same of any fields that addExpense accepts: the name is stored trimmed
C22_RoundTrip_AsTyped ==
  \A c, d \in Slots : (ReadBack(c, d) /\ calls[d].pc = "done") => ReadsBack(c, d)

-----------------------------------------------------------------------------
(* The store layer called on its own: _delete on keys that are stored, that  *)
(* were deleted and that never were                                          *)

DeleteKeys == {1, 3, 7}

NextDelete ==
  \/ \E c \in Slots, key \in DeleteKeys : _delete(c, "expenses", key)
  \/ \E c \in Slots : AddExpenseCall(c, 1, Taxi, 1)
  \/ \E k \in 1..Len(txq) : ExecAdd(k)
  \/ \E k \in 1..Len(txq) : ExecDelete(k)
  \/ \E k \in 1..Len(txq) : Commit(k)
  \/ \E k \in 1..Len(txq) : Abort(k)

SpecDelete == InitSeeded /\ [][NextDelete]_vars

\* _delete c is called on a key that its object store does not hold
DeletesAbsent(c) ==
  /\ calls[c].op = "_delete"
  /\ \A r \in store[calls[c].arg.store] : r.id # calls[c].arg.key

\* C23: _delete on a key that is not in the store (for one, a second _delete
\* of the same key) is never rejected; when its transaction completes it is
\* resolved with true and the store is as it was.
C23_DeleteIdempotent ==
  [][\A c \in Slots : DeletesAbsent(c) =>
       /\ calls'[c].out.st # "err"
       /\ (calls[c].txst = "live" /\ calls'[c].txst = "complete") =>
            /\ calls'[c].out = Ok(TRUE)
            /\ store' = store]_vars

\* Two deletes of the key 1 have resolved, then one of a key that never was
\* stored; the other expense is still stored
C23_Witness ==
  \E c, d, e \in Slots :
    /\ c < d
    /\ calls[c].op = "_delete" /\ calls[c].arg.key = 1 /\ calls[c].txst = "complete"
    /\ calls[d].op = "_delete" /\ calls[d].arg.key = 1 /\ calls[d].txst = "complete"
    /\ calls[d].out = Ok(TRUE)
    /\ calls[e].op = "_delete" /\ calls[e].arg.key = 7 /\ calls[e].out = Ok(TRUE)
    /\ \E r \in store["expenses"] : r.id = 2

-----------------------------------------------------------------------------
(* _get on keys that are stored and keys that are not, while expenses are    *)
(* added and deleted                                                         *)

GetKeys == {1, 3, 7}

NextGet ==
  \/ \E c \in Slots, key \in GetKeys : _get(c, "expenses", key)
  \/ \E c \in Slots : AddExpenseCall(c, 1, Taxi, 1)
  \/ \E c \in Slots : _delete(c, "expenses", 1)
  \/ \E k \in 1..Len(txq) : ExecGet(k)
  \/ \E k \in 1..Len(txq) : ExecAdd(k)
  \/ \E k \in 1..Len(txq) : ExecDelete(k)
  \/ \E k \in 1..Len(txq) : Commit(k)
  \/ \E k \in 1..Len(txq) : Abort(k)

SpecGet == InitSeeded /\ [][NextGet]_vars

\* _get c has settled
Got(c) == calls[c].op = "_get" /\ calls[c].pc = "done"

\* The records with the key of c in the store that c read
WithKey(c) == {r \in calls[c].seen : r.id = calls[c].arg.key}

\* C24, as stated: _get on a key that has no record resolves with null, and on
\* a key that has a record resolves with that record; it never rejects.
C24_GetByKey_Null ==
  \A c \in Slots : Got(c) =>
    /\ WithKey(c) = {} => calls[c].out = Ok(Null)
    /\ \A r \in WithKey(c) : calls[c].out = Ok(r)

C24_GetByKey_Null_bp == Build("bp") => C24_GetByKey_Null

\* C24, amended: _get on a key that has no record resolves with the value
\* that stands for no record, null in the build of src/bp/db.js and undefined
\* in that of src/unnamed/part_001, and on a key that has a record resolves
\* with that record; it never rejects.
C24_GetByKey ==
  \A c \in Slots : Got(c) =>
    /\ WithKey(c) = {} => calls[c].out = Ok(IF impl = "bp" THEN Null ELSE Undef)
    /\ \A r \in WithKey(c) : calls[c].out = Ok(r)

\* One _get resolved with a record, one found no record for a key that had
\* been deleted, in a store that holds other records
C24_Witness ==
  \E c, d \in Slots :
    /\ Got(c) /\ WithKey(c) # {} /\ calls[c].out.st = "ok"
    /\ Got(d) /\ WithKey(d) = {} /\ calls[d].seen # {} /\ calls[d].arg.key = 1
    /\ calls[d].out.st = "ok"

-----------------------------------------------------------------------------
(* addExpense with the fields a caller may pass: what gets into the store *)

\* Fields with a name of spaces, without a date, with an amount below half a
\* cent (0.004), with an amount that is not a number, and with amounts of 0
FieldSets ==
  {Taxi, Padded,
   [Taxi EXCEPT !.name = Str(<<" ", " ">>)],
   [Taxi EXCEPT !.name = Str(<<>>)],
   [Taxi EXCEPT !.date = <<>>],
   [Taxi EXCEPT !.amount = Str(<<"0", ".", "0", "0", "4">>)],
   [Taxi EXCEPT !.amount = Str(<<"a", "b", "c">>)],
   [Taxi EXCEPT !.amount = Num(0)],
   [Taxi EXCEPT !.amount = Str(<<"0">>)]}

NextFields ==
  \/ \E c \in Slots, f \in FieldSets : AddExpenseCall(c, 1, f, 1)
  \/ \E k \in 1..Len(txq) : ExecAdd(k)
  \/ \E k \in 1..Len(txq) : Commit(k)
  \/ \E k \in 1..Len(txq) : Abort(k)

SpecFields == InitOpened /\ [][NextFields]_vars

\* C25: every record of the expenses store has an amount above 0, a name that
\* is not empty once trimmed, and a date.
C25_ExpenseInvariants ==
  \A e \in store["expenses"] :
    /\ e.amount.t = "num" /\ e.amount.n > 0
    /\ trim(e.name) # <<>>
    /\ e.date # <<>>

\* The part of it about the name and the date
C25_NameAndDate ==
  \A e \in store["expenses"] : trim(e.name) # <<>> /\ e.date # <<>>

\* An expense whose name was typed with a space before it is stored
C25_NameAndDate_Witness ==
  \E c \in Slots :
    /\ calls[c].op = "addExpense" /\ calls[c].arg.f = Padded /\ calls[c].txst = "complete"
    /\ \E e \in store["expenses"] : e.id = calls[c].out.val

-----------------------------------------------------------------------------
(* addExpense for a user that is stored and for an id that no user has *)

\* The id of a stored user, and an id that no user has
OwnerIds == {1, 9}

NextOwners ==
  \/ \E c \in Slots, u \in OwnerIds : AddExpenseCall(c, u, Taxi, 1)
  \/ \E k \in 1..Len(txq) : ExecAdd(k)
  \/ \E k \in 1..Len(txq) : Commit(k)
  \/ \E k \in 1..Len(txq) : Abort(k)

SpecOwners == InitSeeded /\ [][NextOwners]_vars

\* C26: addExpense stores an expense only when the users store holds a user
\* whose id is its userId: the user_id of every stored expense is the id of a
\* stored user (no user is ever deleted here).
C26_UserExists ==
  \A e \in store["expenses"] : \E u \in store["users"] : u.id = e.user_id

-----------------------------------------------------------------------------
(* Claims about the life of an expense, under adds, deletes and queries *)

\* This step commits the delete of deleteExpense(userId, id) c
DeleteCommits(c, userId, id) ==
  /\ calls[c].op = "deleteExpense"
  /\ calls[c].arg.userId = userId /\ calls[c].arg.id = id
  /\ calls[c].txst = "live" /\ calls'[c].txst = "complete"

-----------------------------------------------------------------------------
(* Every operation of the API from the first call of a page, on a database   *)
(* that is absent, of the version of the build, or of another version        *)

NextLife ==
  \/ \E c \in Slots : CreateUserCall(c, TwoLetters, Pin9999)
  \/ \E c \in Slots : VerifyUserCall(c, Bob, Pin1234)
  \/ \E c \in Slots : HasUsersCall(c)
  \/ \E c \in Slots : AddExpenseCall(c, 1, Taxi, 1)
  \/ \E c \in Slots : DeleteExpenseCall(c, 1, 1)
  \/ \E c \in Slots : GetExpensesCall(c, 1, "all", "Toutes")
  \/ \E c \in Slots : StatsByMonthCall(c, 1)
  \/ Events

SpecLife == InitCold /\ [][NextLife]_vars

\* This step upgrades the schema: onupgradeneeded runs
Upgrades == version < DB_VERSION(impl) /\ version' = DB_VERSION(impl)

\* C28: a stored user record stays stored with the same values through every
\* step of createUser, verifyUser, hasUsers, addExpense, deleteExpense,
\* getExpenses and the statistics; it goes only in a step that upgrades the
\* schema.
C28_UserImmutable ==
  [][\A u \in store["users"] : u \in store'["users"] \/ Upgrades]_vars

\* A user has been registered and its record is stored beside those that were
\* there, after an expense was deleted and another call has settled
C28_Witness ==
  \E c, d, e \in Slots :
    /\ calls[c].op = "createUser" /\ calls[c].txst = "complete"
    /\ calls[c].out.st = "ok"
    /\ \E u \in store["users"] : u.id = calls[c].out.val.id /\ u.username = <<"b", "o">>
    /\ calls[d].op = "deleteExpense" /\ calls[d].txst = "complete"
    /\ e # c /\ e # d /\ calls[e].pc = "done"
    /\ Cardinality(store["users"]) = 3

-----------------------------------------------------------------------------
(* The session: registrations, logins and logouts of the page *)

Tao == <<"T", "a", "o">>

\* What is typed in the registration form: a new name, and a name that is taken
SessionRegInputs == {<<Tao, Pin1234, Pin1234>>, <<Bob, Pin1234, Pin1234>>}

\* What is typed in the login form: the PIN of the user, and another PIN
SessionLoginInputs == {<<BobRaw, Pin1234>>, <<Lola, Pin1234>>}

NextSession ==
  \/ \E c \in Slots, typed \in SessionRegInputs : RegSubmit(c, typed[1], typed[2], typed[3])
  \/ \E c \in Slots, typed \in SessionLoginInputs : LoginSubmit(c, typed[1], typed[2])
  \/ \E c \in Slots : Logout(c)
  \/ \E k \in 1..Len(txq) : ExecIndex(k)
  \/ \E k \in 1..Len(txq) : ExecGetAll(k)
  \/ \E k \in 1..Len(txq) : ExecCount(k)
  \/ \E k \in 1..Len(txq) : ExecAdd(k)
  \/ \E k \in 1..Len(txq) : Commit(k)
  \/ \E k \in 1..Len(txq) : Abort(k)
  \/ \E c \in Slots : HashDone(c)

SpecSession == InitSeeded /\ [][NextSession]_vars

\* c is a registration or a login of the page
IsSignIn(c) ==
  calls'[c].op = "form-reg" \/ (calls'[c].op \in {"createUser", "verifyUser"} /\ calls'[c].via = "form")

\* This step settles the registration or login c
Settles(c) == IsSignIn(c) /\ calls[c].pc # "done" /\ calls'[c].pc = "done"

\* This step is a click on logout
LogsOut == \E c \in Slots : calls[c].op = "none" /\ calls'[c].op = "hasUsers" /\ calls'[c].via = "form"

\* C29: a logout leaves currentUser and the item of sessionStorage absent; they
\* change only in a logout and in the step in which a registration or a login
\* succeeds, which sets both to the user it returned; the step in which a
\* registration or a login fails leaves both as they were.
C29_SessionIdentity ==
  [][/\ LogsOut => (currentUser' = Null /\ bp_user' = Null)
     /\ (currentUser' # currentUser \/ bp_user' # bp_user) =>
          \/ LogsOut
          \/ \E c \in Slots :
               /\ Settles(c) /\ calls'[c].out.st = "ok"
               /\ currentUser' = calls'[c].out.val /\ bp_user' = calls'[c].out.val
     /\ \A c \in Slots :
          (Settles(c) /\ calls'[c].out.st = "err") =>
            (currentUser' = currentUser /\ bp_user' = bp_user)]_vars

\* After a logout a login has succeeded and its user is the current user, in
\* memory and in sessionStorage; a login with a wrong PIN has failed
C29_Witness ==
  \E c, d \in Slots :
    /\ calls[c].op = "verifyUser" /\ calls[c].via = "form"
    /\ calls[c].out.st = "err"
    /\ calls[d].op = "hasUsers" /\ calls[d].via = "form"
    /\ currentUser # Null /\ bp_user = currentUser

-----------------------------------------------------------------------------
(* Settlement: every operation of the store layer, with transactions that    *)
(* complete or abort.  The browser delivers every event that is due.         *)

NextSettle ==
  \/ \E c \in Slots : AddExpenseCall(c, 1, Taxi, 1)
  \/ \E c \in Slots : _get(c, "expenses", 1)
  \/ \E c \in Slots : VerifyUserCall(c, Bob, Pin1234)
  \/ \E c \in Slots : GetExpensesCall(c, 1, "all", "Toutes")
  \/ \E c \in Slots : _delete(c, "expenses", 1)
  \/ \E c \in Slots : HasUsersCall(c)
  \/ StoreEvents

SpecSettle == InitSeeded /\ [][NextSettle]_vars /\ WF_vars(StoreEvents)

\* C30: every operation of the store layer that was called settles in the
\* end, whether its transaction completes or aborts; an insert or a delete
\* whose transaction aborted is rejected in the end.
C30_EverySettles ==
  \A c \in Slots :
    /\ [](calls[c].pc # "idle" => <>(calls[c].pc = "done"))
    /\ [](calls[c].txst = "aborted" => <>(calls[c].out.st = "err"))

\* The part of it about the reads: in the end every call of _get, _findOne,
\* _getAllFromStore and _count that was made has settled
C30_ReadsSettle ==
  <>[](\A c \in Slots :
         calls[c].op \in {"_get", "verifyUser", "getExpenses", "hasUsers"}
           => calls[c].pc = "done")

\* The part of it about an insert of the build of src/bp/db.js: in the end it
\* has settled, and is rejected when its transaction aborted
C30_InsertSettles_bp ==
  <>[](\A c \in Slots :
         (Build("bp") /\ calls[c].op = "addExpense") =>
           /\ calls[c].pc = "done"
           /\ calls[c].txst = "aborted" => calls[c].out.st = "err")

-----------------------------------------------------------------------------
(* The schema: what an open request does to the persisted collections *)

\* This step completes the open request: req.onsuccess or req.onerror
OpenCompletes == opens # <<>> /\ Len(opens') < Len(opens)

\* Every collection is gone and users and expenses are there, empty
Recreated ==
  /\ storeNames' = StoreNames
  /\ \A n \in StoreNames : store'[n] = {}

\* C31: an open request that finds a persisted version other than DB_VERSION
\* deletes every collection and creates users and expenses, both empty; one
\* that finds DB_VERSION upgrades nothing and leaves every record as it was.
C31_OpenUpgrade ==
  [][OpenCompletes =>
       IF version # DB_VERSION(impl)
         THEN Recreated
         ELSE UNCHANGED <<version, storeNames, store, keyGen>>]_vars

\* The same for a persisted version that is not newer than DB_VERSION: the
\* older one is upgraded with empty collections, the equal one is left alone
C31_OpenUpgrade_Older ==
  [][(OpenCompletes /\ version <= DB_VERSION(impl)) =>
       IF version < DB_VERSION(impl)
         THEN Recreated /\ version' = DB_VERSION(impl)
         ELSE UNCHANGED <<version, storeNames, store, keyGen>>]_vars

\* A persisted version newer than DB_VERSION: the open request fails and
\* nothing is deleted, created or upgraded
C31_OpenNewer_Untouched ==
  [][(OpenCompletes /\ version > DB_VERSION(impl)) =>
       UNCHANGED <<version, storeNames, store, keyGen, _db>>]_vars

-----------------------------------------------------------------------------
(* Reads beside writes: queries, statistics, verifyUser and hasUsers on an     *)
(* open database on which expenses are added and deleted                       *)

NextReads ==
  \/ \E c \in Slots : GetExpensesCall(c, 1, "all", "Toutes")
  \/ \E c \in Slots : StatsByCategoryCall(c, 1, "all")
  \/ \E c \in Slots : StatsByDayCall(c, 1, "all")
  \/ \E c \in Slots : StatsByMonthCall(c, 1)
  \/ \E c \in Slots : VerifyUserCall(c, Bob, Pin1234)
  \/ \E c \in Slots : HasUsersCall(c)
  \/ \E c \in Slots : AddExpenseCall(c, 1, Taxi, 1)
  \/ \E c \in Slots : DeleteExpenseCall(c, 1, 1)
  \/ StoreEvents

SpecReads == InitSeeded /\ [][NextReads]_vars

ReadOps ==
  {"getExpenses", "statsByCategory", "statsByDay", "statsByMonth", "verifyUser",
   "hasUsers"}

\* This step is one of a read: it is called, its request runs, its digest
\* arrives or its promise settles
ReadStep ==
  \E c \in Slots :
    /\ calls'[c].op \in ReadOps
    /\ calls'[c].pc # calls[c].pc \/ calls'[c].op # calls[c].op

\* This step commits the transaction of addExpense or deleteExpense
WriteCommits ==
  \E k \in 1..Len(txq) :
    /\ txq[k].st = "requested"
    /\ calls[txq[k].c].op \in {"addExpense", "deleteExpense"}
    /\ txq' = RemoveAt(txq, k)

-----------------------------------------------------------------------------
(* The application screen in use: a login shows it, then the filters, the     *)
(* chart type and the theme are changed while earlier loads are pending       *)

MaxLoads == 3
MaxRenders == 4

\* It is 2025-05-10: the ledger has expenses in the last twelve months, none
\* in the month
PageNows == {At(<<2025, 5, 10>>, 0)}
Periods == {"month", "all"}
Categories == {"Toutes", "Transport"}
ChartTypes == {"bar_h", "bar_month"}

PageFrame ==
  UNCHANGED <<impl, session, sw, version, storeNames, store, keyGen, _db, opens, txq,
              calls, clock, now, hist>>

\* The login form is submitted: its button is disabled while a login is awaited
LoginClick(c) ==
  /\ currentUser = Null
  /\ \A d \in Slots : calls[d].pc \in {"idle", "done"}
  /\ LoginSubmit(c, Bob, Pin1234)

\* change on filter-period: loadData
PeriodChange(period) ==
  /\ currentUser # Null
  /\ page.loads < MaxLoads
  /\ period # page.period
  /\ page' = loadData(impl, [page EXCEPT !.period = period], currentUser)
  /\ PageFrame

\* change on filter-cat: loadData
CategoryChange(category) ==
  /\ currentUser # Null
  /\ page.loads < MaxLoads
  /\ category # page.category
  /\ page' = loadData(impl, [page EXCEPT !.category = category], currentUser)
  /\ PageFrame

\* setChartType(type): chartType = type; renderChart(period)
setChartType(type) ==
  /\ currentUser # Null
  /\ page.renders < MaxRenders
  /\ page' = renderChart(impl, [page EXCEPT !.chartType = type], currentUser,
                         page.period, 0)
  /\ PageFrame

\* toggleTheme() of src/bp/db.js: setTheme(...); renderChart(period)
toggleTheme ==
  /\ impl = "bp"
  /\ currentUser # Null
  /\ page.renders < MaxRenders
  /\ page' = renderChart(impl, page, currentUser, page.period, 0)
  /\ PageFrame

\* The oldest read of the screen settles, on the open database
ReadSettles ==
  /\ Cached
  /\ page.reads # <<>>
  /\ page' = ReadSettled(impl, page, currentUser, store["expenses"], now)
  /\ PageFrame

InitPage == InitLedger(PageNows)

NextPage ==
  \/ \E c \in Slots : LoginClick(c)
  \/ \E k \in 1..Len(txq) : ExecIndex(k)
  \/ \E c \in Slots : HashDone(c)
  \/ \E p \in Periods : PeriodChange(p)
  \/ \E g \in Categories : CategoryChange(g)
  \/ \E t \in ChartTypes : setChartType(t)
  \/ toggleTheme
  \/ ReadSettles

SpecPage == InitPage /\ [][NextPage]_vars

C34_LatestLoadShown ==
  (page.reads = <<>> /\ page.loads >= 2 /\ page.renders = page.loads) =>
    /\ page.list.load = page.loads
    /\ \A ch \in page.live : ch.render = page.renders

\* The same for the list in the v1 build alone
C34_LatestListShown_v1 ==
  (impl = "v1" /\ page.reads = <<>> /\ page.loads >= 2) => page.list.load = page.loads

-----------------------------------------------------------------------------
(* The page is loaded again in a tab that may hold the session of an earlier  *)
(* load, on the database that load left                                        *)

\* What JSON.parse gives for the item an earlier login stored: {id, username}
\* of bob, whose record the database holds
SavedUser(i) == UserView(i, 1, Bob, Bob)

\* The DOMContentLoaded handler has run on the page just loaded:
\* with a saved session, currentUser = JSON.parse(saved) and showApp() has
\* started loadData; without one, DB.hasUsers() has been called to choose the
\* tab of the authentication screen.  The database was left by an earlier run
\* (not absent: version 1 or 5) with two users and their expenses
InitReload ==
  /\ impl \in {"bp", "v1"}
  /\ version \in Versions \ {0}
  /\ storeNames = StoreNames
  /\ store = [n \in StoreNames |->
                IF n = "users"
                  THEN {Seeded(UserRecord(impl, Bob, Pin1234, 1), 1),
                        Seeded(UserRecord(impl, Lola, Pin9999, 2), 2)}
                  ELSE {Seeded(ExpenseRecord(impl, 1, Taxi, 3), 1),
                        Seeded(ExpenseRecord(impl, 2, Taxi, 4), 2)}]
  /\ keyGen = [n \in StoreNames |-> 2]
  /\ _db = 0
  /\ txq = <<>>
  /\ bp_user \in {Null, SavedUser(impl)}
  /\ currentUser = bp_user
  /\ IF bp_user # Null
       THEN /\ page = loadData(impl, NoPage, bp_user)
            /\ calls = [c \in Slots |-> IdleCall]
            /\ opens = <<>>
            /\ hist = NoHistory
       ELSE /\ page = NoPage
            /\ calls = [c \in Slots |->
                          IF c = 1
                            THEN [IdleCall EXCEPT !.op = "hasUsers", !.pc = "open",
                                                  !.pre = store, !.alone = TRUE,
                                                  !.via = "form"]
                            ELSE IdleCall]
            /\ opens = <<Tx(1, "users", IF impl = "bp" THEN "count" ELSE "getAll", <<>>)>>
            /\ hist = [NoHistory EXCEPT !.nOpen = 1]
  /\ sw = NoWorker
  /\ clock = 5
  /\ now = [date |-> Today, dow |-> getDay(Today), skew |-> 0]

\* openDB() of a read of the screen when no connection is cached: the open
\* request succeeds, after the upgrade when the persisted version is older
PageOpen ==
  /\ ~Cached
  /\ page.reads # <<>>
  /\ version <= DB_VERSION(impl)
  /\ _db' = hist.nConn + 1
  /\ hist' = [hist EXCEPT !.nConn = @ + 1, !.nOpen = @ + 1]
  /\ IF version < DB_VERSION(impl)
       THEN /\ version' = DB_VERSION(impl)
            /\ storeNames' = UpgradedNames
            /\ store' = UpgradedStore
            /\ keyGen' = UpgradedKeyGen
       ELSE UNCHANGED <<version, storeNames, store, keyGen>>
  /\ UNCHANGED <<impl, session, page, sw, opens, txq, calls, clock, now>>

\* The same when the persisted version is newer: VersionError, the read is
\* rejected and loadData shows the error
PageOpenError ==
  /\ ~Cached
  /\ page.reads # <<>>
  /\ version > DB_VERSION(impl)
  /\ page' = [page EXCEPT !.reads = Tail(@),
                          !.got = {g \in @ : g.load # Head(page.reads).load}]
  /\ hist' = [hist EXCEPT !.nOpen = @ + 1]
  /\ UNCHANGED <<impl, session, sw, version, storeNames, store, keyGen, _db, opens, txq,
                 calls, clock, now>>

\* submit of expense-form: await DB.addExpense(currentUser.id, data), then
\* loadData(); the button is disabled while the call is awaited
ExpenseSubmit(c, f) ==
  /\ currentUser # Null
  /\ \A d \in Slots : calls[d].op = "addExpense" => calls[d].pc = "done"
  /\ AddExpense(c, currentUser.id, f, 1, "form")

NextReload ==
  \/ \E c \in Slots : ExpenseSubmit(c, Taxi)
  \/ \E c \in Slots : LoginClick(c)
  \/ PageOpen
  \/ PageOpenError
  \/ ReadSettles
  \/ OpenSuccess
  \/ OpenError
  \/ \E k \in 1..Len(txq) : ExecIndex(k)
  \/ \E k \in 1..Len(txq) : ExecGetAll(k)
  \/ \E k \in 1..Len(txq) : ExecCount(k)
  \/ \E k \in 1..Len(txq) : ExecAdd(k)
  \/ \E k \in 1..Len(txq) : Commit(k)
  \/ \E k \in 1..Len(txq) : Abort(k)
  \/ \E c \in Slots : HashDone(c)

SpecReload == InitReload /\ [][NextReload]_vars

\* C35: whenever currentUser is set, the users store holds a record with its
\* id.
C35_IdentityIsUser ==
  currentUser # Null => \E u \in store["users"] : u.id = currentUser.id

\* Every expense that is committed is owned by a user stored at that moment
C35_ExpenseOwned ==
  [][\A e \in store'["expenses"] \ store["expenses"] :
       \E u \in store'["users"] : u.id = e.user_id]_vars

\* In the v1 build the identity is that of a stored user
C35_IdentityIsUser_v1 == impl = "v1" => C35_IdentityIsUser

-----------------------------------------------------------------------------
(* The fetch listener of the service worker at work *)

MaxFetches == 3

\* The requests of the page: two assets and a file that is no asset
Urls == Assets \cup {"./logo.svg"}

WorkerFrame ==
  UNCHANGED <<impl, session, page, version, storeNames, store, keyGen, _db, opens, txq,
              calls, clock, now, hist>>

\* A fetch event: e.respondWith(caches.match(e.request)...) starts the lookup
\*   had:    the cache held the request when the event was dispatched
\*   looked, hit: the lookup has answered, and with a response
\*   asked:  fetch(e.request) was called
\*   from:   what the page was answered with
\*   put:    c.put(e.request, clone) of the response of the network
FetchEvent(url) ==
  /\ Len(sw.events) < MaxFetches
  /\ sw' = [sw EXCEPT !.events = Append(@,
              [url |-> url, pc |-> "match", had |-> url \in sw.cache,
               looked |-> FALSE, hit |-> FALSE, asked |-> FALSE, from |-> "",
               put |-> "none"])]
  /\ WorkerFrame

\* caches.match(e.request) looks the request up in the cache
Lookup(k) ==
  /\ k \in 1..Len(sw.events)
  /\ sw.events[k].pc = "match"
  /\ sw' = [sw EXCEPT !.events[k].pc = "matched", !.events[k].looked = TRUE,
                      !.events[k].hit = Matches(sw.cache, sw.events[k].url)]
  /\ WorkerFrame

\* .then(cached => { if (cached) return cached; return fetch(e.request)... }):
\* the lookup has answered and the listener goes on
Matched(k) ==
  /\ k \in 1..Len(sw.events)
  /\ sw.events[k].pc = "matched"
  /\ sw' = IF sw.events[k].hit
             THEN [sw EXCEPT !.events[k].pc = "done", !.events[k].from = "cache"]
             ELSE [sw EXCEPT !.events[k].pc = "net", !.events[k].asked = TRUE,
                             !.sent = @ + 1]
  /\ WorkerFrame

\* fetch(e.request).then(response => { const clone = response.clone();
\* caches.open(CACHE).then(c => c.put(e.request, clone)); return response; })
NetworkAnswers(k) ==
  /\ k \in 1..Len(sw.events)
  /\ sw.events[k].pc = "net"
  /\ sw' = [sw EXCEPT !.events[k].pc = "done", !.events[k].from = "network",
                      !.events[k].put = "pending"]
  /\ WorkerFrame

\* The network fails: .catch(() => caches.match('./index.html'))
NetworkFails(k) ==
  /\ k \in 1..Len(sw.events)
  /\ sw.events[k].pc = "net"
  /\ sw' = [sw EXCEPT !.events[k].pc = "done",
                      !.events[k].from = IF Matches(sw.cache, "./index.html")
                                           THEN "shell" ELSE "error"]
  /\ WorkerFrame

\* c.put(e.request, clone) has stored the response
PutDone(k) ==
  /\ k \in 1..Len(sw.events)
  /\ sw.events[k].put = "pending"
  /\ sw' = [sw EXCEPT !.events[k].put = "stored", !.cache = @ \cup {sw.events[k].url}]
  /\ WorkerFrame

\* The put is rejected (quota; bp: res.clone() of a body already read throws);
\* nothing handles it and nothing is stored
PutFails(k) ==
  /\ k \in 1..Len(sw.events)
  /\ sw.events[k].put = "pending"
  /\ sw' = [sw EXCEPT !.events[k].put = "failed"]
  /\ WorkerFrame

NextWorker ==
  \/ \E u \in Urls : FetchEvent(u)
  \/ \E k \in 1..MaxFetches : Lookup(k)
  \/ \E k \in 1..MaxFetches : Matched(k)
  \/ \E k \in 1..MaxFetches : NetworkAnswers(k)
  \/ \E k \in 1..MaxFetches : NetworkFails(k)
  \/ \E k \in 1..MaxFetches : PutDone(k)
  \/ \E k \in 1..MaxFetches : PutFails(k)

SpecWorker == InitOpened /\ [][NextWorker]_vars

C36_AskedOnlyWithoutMatch ==
  [][\A k \in 1..Len(sw.events) :
       (sw'.events[k].asked /\ ~sw.events[k].asked) =>
         sw.events[k].url \notin sw.cache]_vars

====
